---- MODULE Spec2Model ----
(***************************************************************************)
(* drizzle-sqlite-vec: vector codec, vec0 schema builder, expression       *)
(* builder and DML helpers, modelled from the TypeScript sources.          *)
(*                                                                         *)
(* A JavaScript number is an IEEE-754 double, kept here as the record      *)
(* [s, e, hi, lo]: sign bit, 11-bit biased exponent, and the 52-bit        *)
(* fraction split into its upper 23 bits (hi) and lower 29 bits (lo), so   *)
(* that every field fits a 32-bit integer.  A float32 is [s, e, m] with an *)
(* 8-bit biased exponent and a 23-bit fraction.                            *)
(***************************************************************************)
EXTENDS Integers, Sequences, FiniteSets, TLC

VARIABLES
  op,       \* the operation that ran last
  vector,   \* codec: the number[] handed to serializeVector
  buffer,   \* codec: the Buffer under consideration
  decoded,  \* codec: what deserializeVector returned or threw
  call,     \* the arguments of the last call
  frag,     \* expression builder: the SQL object the last helper returned
  builders, \* schema builder: the config object of every Vec0ColumnBuilder made
  tables,   \* schema builder: the table definitions returned by vec0Table
  ddl       \* schema builder: the string createSQL returned last

codecVars == <<vector, buffer, decoded>>
schemaVars == <<builders, tables, ddl>>
vars == <<op, vector, buffer, decoded, call, frag, builders, tables, ddl>>

(***************************************************************************)
(* Bounds                                                                  *)
(***************************************************************************)
MaxLen == 2
MaxDepth == 1
MaxMutations == 1

(***************************************************************************)
(* IEEE-754 helpers                                                        *)
(***************************************************************************)
Two22 == 4194304
Two23 == 8388608
Two28 == 268435456

Dbl(s, e, hi, lo) == [s |-> s, e |-> e, hi |-> hi, lo |-> lo]
F32(s, e, m) == [s |-> s, e |-> e, m |-> m]

Zero == Dbl(0, 0, 0, 0)
NegZero == Dbl(1, 0, 0, 0)
One == Dbl(0, 1023, 0, 0)
Tenth == Dbl(0, 1019, 5033164, 429496730)
FltMax == Dbl(0, 1150, 8388607, 0)
AboveFltMax == Dbl(0, 1150, 8388607, 88977400)
HalfUlpAboveFltMax == Dbl(0, 1150, 8388607, 268435456)
NegBig == Dbl(1, 1152, 3937343, 345786909)
PosInf == Dbl(0, 2047, 0, 0)
NegInf == Dbl(1, 2047, 0, 0)
NaN == Dbl(0, 2047, Two22, 0)
MinSub == Dbl(0, 874, 0, 0)
BelowMinNormal == Dbl(0, 896, 8388607, 530570152)
TieOne == Dbl(0, 1023, 0, 268435456)

Numbers ==
  {Zero, NegZero, One, Tenth, FltMax, AboveFltMax, HalfUlpAboveFltMax, NegBig,
   PosInf, NegInf, NaN, MinSub, BelowMinNormal, TieOne}

IsNaN(d) == d.e = 2047 /\ (d.hi # 0 \/ d.lo # 0)
IsInf(d) == d.e = 2047 /\ d.hi = 0 /\ d.lo = 0
IsFinite(d) == d.e # 2047

\* A conversion that chopped the low fraction bits instead of rounding.
ToFloat32Truncating(d) ==
  IF d.e = 2047 THEN F32(d.s, 255, IF d.hi = 0 /\ d.lo = 0 THEN 0 ELSE Two22)
  ELSE IF d.e - 1023 > 127 THEN F32(d.s, 255, 0)
  ELSE IF d.e - 1023 < -126 THEN F32(d.s, 0, 0)
  ELSE F32(d.s, d.e - 1023 + 127, d.hi)

\* Number -> float32 element conversion of a Float32Array store
\* (round to nearest, ties to even).
ToFloat32(d) ==
  IF d.e = 2047 THEN
    IF d.hi = 0 /\ d.lo = 0 THEN F32(d.s, 255, 0)
    ELSE F32(d.s, 255, Two22 + (d.hi % Two22))
  ELSE IF d.e = 0 THEN F32(d.s, 0, 0)
  ELSE
    LET E == d.e - 1023 IN
    IF E >= -126 THEN
      LET up == IF d.lo > Two28 \/ (d.lo = Two28 /\ d.hi % 2 = 1) THEN 1 ELSE 0
          m1 == d.hi + up
          E1 == IF m1 = Two23 THEN E + 1 ELSE E
          m2 == IF m1 = Two23 THEN 0 ELSE m1
      IN IF E1 > 127 THEN F32(d.s, 255, 0) ELSE F32(d.s, E1 + 127, m2)
    ELSE
      LET shift == (0 - 126) - E IN
      IF shift >= 25 THEN F32(d.s, 0, 0)
      ELSE
        LET sig == Two23 + d.hi
            q == sig \div (2 ^ shift)
            r == sig % (2 ^ shift)
            half == 2 ^ (shift - 1)
            up == IF r > half \/ (r = half /\ d.lo > 0)
                     \/ (r = half /\ d.lo = 0 /\ q % 2 = 1) THEN 1 ELSE 0
            m1 == q + up
        IN IF m1 = Two23 THEN F32(d.s, 1, 0) ELSE F32(d.s, 0, m1)

RECURSIVE HighBit(_)
HighBit(m) == IF m <= 1 THEN 0 ELSE 1 + HighBit(m \div 2)

\* float32 element -> Number (exact widening; every NaN reads as the one
\* JavaScript NaN).
Widen(f) ==
  IF f.e = 255 THEN (IF f.m = 0 THEN Dbl(f.s, 2047, 0, 0) ELSE NaN)
  ELSE IF f.e = 0 THEN
    IF f.m = 0 THEN Dbl(f.s, 0, 0, 0)
    ELSE LET p == HighBit(f.m) IN
         Dbl(f.s, (p - 149) + 1023, (f.m - 2 ^ p) * 2 ^ (23 - p), 0)
  ELSE Dbl(f.s, (f.e - 127) + 1023, f.m, 0)

\* The four bytes a float32 occupies in an ArrayBuffer (little-endian host).
F32Bytes(f) ==
  << f.m % 256,
     (f.m \div 256) % 256,
     (f.e % 2) * 128 + (f.m \div 65536),
     f.s * 128 + (f.e \div 2) >>

F32FromBytes(b0, b1, b2, b3) ==
  F32(b3 \div 128, (b3 % 128) * 2 + (b2 \div 128), (b2 % 128) * 65536 + b1 * 256 + b0)

(***************************************************************************)
(* Vector codec                                                            *)
(***************************************************************************)
\* new Float32Array(vector)
Float32ArrayOf(v) == [i \in 1..Len(v) |-> ToFloat32(v[i])]

\* float32.buffer
RECURSIVE ArrayBufferOf(_)
ArrayBufferOf(fa) ==
  IF fa = <<>> THEN <<>> ELSE F32Bytes(Head(fa)) \o ArrayBufferOf(Tail(fa))

NoBuffer == [storage |-> <<>>, byteOffset |-> 0, byteLength |-> 0]

\* Buffer.from(arrayBuffer): a view over the whole ArrayBuffer
BufferFrom(ab) == [storage |-> ab, byteOffset |-> 0, byteLength |-> Len(ab)]

\* A codec that prefixed the element count would break the layout.
serializeVectorWithHeader(v) ==
  BufferFrom(<<Len(v)>> \o ArrayBufferOf(Float32ArrayOf(v)))

serializeVector(v) ==
  LET float32 == Float32ArrayOf(v) IN BufferFrom(ArrayBufferOf(float32))

\* Element index i (from 0) of a Float32Array view placed at b.byteOffset
ElementAt(b, i) ==
  F32FromBytes(b.storage[b.byteOffset + 4 * i + 1], b.storage[b.byteOffset + 4 * i + 2],
               b.storage[b.byteOffset + 4 * i + 3], b.storage[b.byteOffset + 4 * i + 4])

\* new Float32Array(arrayBuffer, byteOffset, length) followed by Array.from
deserializeVector(b) ==
  LET length == b.byteLength \div 4 IN
  IF b.byteOffset % 4 # 0 THEN [ok |-> FALSE, error |-> "RangeError", value |-> <<>>]
  ELSE IF b.byteOffset + 4 * length > Len(b.storage)
  THEN [ok |-> FALSE, error |-> "RangeError", value |-> <<>>]
  ELSE [ok |-> TRUE, error |-> "",
        value |-> [i \in 1..length |-> Widen(ElementAt(b, i - 1))]]

(***************************************************************************)
(* SQL objects of the query builder.  Text is kept as a sequence of        *)
(* pieces (one lexical unit or one character each) so that rendered text   *)
(* can be scanned again.  An SQL object is a list of chunks: a string      *)
(* chunk, an identifier (Name), a column, a bound value, or a nested SQL.  *)
(***************************************************************************)
StringChunk(pieces) == [k |-> "str", v |-> pieces]
Name(n) == [k |-> "name", v |-> n]
Value(x) == [k |-> "param", v |-> x]
\* Bound values: a Buffer, a number or a string
BufferValue(b) == [t |-> "buffer", buf |-> b, num |-> 0, str |-> ""]
NumberValue(n) == [t |-> "number", buf |-> NoBuffer, num |-> n, str |-> ""]
StringValue(x) == [t |-> "string", buf |-> NoBuffer, num |-> 0, str |-> x]
Column(t, n) == [k |-> "col", table |-> t, name |-> n]
SQL(chunks) == [k |-> "sql", chunks |-> chunks]

\* sql`s1${p1}s2${p2}...`: the strings interleaved with the parameters
RECURSIVE Interleave(_, _)
Interleave(strings, params) ==
  IF params = <<>> THEN <<>>
  ELSE <<Head(params), StringChunk(Head(strings))>>
         \o Interleave(Tail(strings), Tail(params))

sqlTemplate(strings, params) ==
  SQL(IF params = <<>> /\ Head(strings) = <<>> THEN <<>>
      ELSE <<StringChunk(Head(strings))>> \o Interleave(Tail(strings), params))

\* sql.raw(text)
sqlRaw(pieces) == SQL(<<StringChunk(pieces)>>)

\* sql.identifier(name)
sqlIdentifier(n) == Name(n)

\* SQL.append(query)
sqlAppend(q, other) == SQL(Append(q.chunks, other))

\* SQL.mapWith(decoder) only installs a decoder for result rows; the chunk
\* list is left as it is.
sqlMapWith(q, decoder) == q

\* The dialect's identifier quoting
escapeName(n) == <<"\"">> \o n \o <<"\"">>

\* Rendering of an SQL object into text and positional parameters
RECURSIVE buildQuery(_)
buildQuery(chunk) ==
  CASE chunk.k = "str" -> [sql |-> chunk.v, params |-> <<>>]
    [] chunk.k = "name" -> [sql |-> escapeName(chunk.v), params |-> <<>>]
    [] chunk.k = "col" ->
         [sql |-> escapeName(chunk.table) \o <<".">> \o escapeName(chunk.name),
          params |-> <<>>]
    [] chunk.k = "param" -> [sql |-> <<"?">>, params |-> <<chunk.v>>]
    [] chunk.k = "sql" ->
         IF chunk.chunks = <<>> THEN [sql |-> <<>>, params |-> <<>>]
         ELSE LET h == buildQuery(Head(chunk.chunks))
                  t == buildQuery(SQL(Tail(chunk.chunks)))
              IN [sql |-> h.sql \o t.sql, params |-> h.params \o t.params]
    [] OTHER -> [sql |-> <<>>, params |-> <<>>]

(***************************************************************************)
(* Expression builder                                                      *)
(***************************************************************************)
\* Operands: a literal array, a column object, or an SQL expression
Lit(v) == [shape |-> "array", v |-> v]
Col(c) == [shape |-> "column", v |-> c]
Nested(q) == [shape |-> "sql", v |-> q]
Str(x) == [shape |-> "string", v |-> x]
Num(n) == [shape |-> "number", v |-> n]

\* A lowering that handed the array itself to the template, which binds one
\* value per element.
toVectorSqlSpread(value) ==
  IF value.shape = "array"
  THEN SQL([i \in 1..Len(value.v) |-> Value(BufferValue(serializeVector(<<value.v[i]>>)))])
  ELSE IF value.shape = "sql" THEN value.v
  ELSE SQL(<<StringChunk(<<>>), value.v, StringChunk(<<>>)>>)

toVectorSql(value) ==
  IF value.shape = "array" THEN sqlTemplate(<<<<>>, <<>>>>, <<Value(BufferValue(serializeVector(value.v)))>>)
  ELSE IF value.shape = "sql" THEN value.v
  ELSE sqlTemplate(<<<<>>, <<>>>>, <<value.v>>)

vectorMatch(column, queryVector, k) ==
  LET columnName == IF column.shape = "string" THEN column.v ELSE column.v.name
      vectorBuffer == serializeVector(queryVector)
  IN sqlMapWith(
       sqlAppend(sqlRaw(columnName \o <<" ", "MATCH", " ", "?">>),
                 sqlTemplate(<< <<" ", "AND", " ", "k", " ", "=", " ">>, <<>> >>,
                             <<Value(NumberValue(k))>>)),
       vectorBuffer)

knnWhere(column, queryVector, k) ==
  LET vectorBuffer == serializeVector(queryVector)
  IN sqlTemplate(<< <<>>, <<" ", "MATCH", " ">>, <<" ", "AND", " ", "k", " ", "=", " ">>, <<>> >>,
                 <<sqlIdentifier(column), Value(BufferValue(vectorBuffer)), Value(NumberValue(k))>>)

\* A lowering that emitted the operands in the opposite order
BinarySwapped(fn, vec1, vec2) ==
  LET v1 == toVectorSql(vec1)
      v2 == toVectorSql(vec2)
  IN sqlTemplate(<< <<fn, "(">>, <<",", " ">>, <<")">> >>, <<v2, v1>>)

\* sql`fn(${v1}, ${v2})`
Binary(fn, vec1, vec2) ==
  LET v1 == toVectorSql(vec1)
      v2 == toVectorSql(vec2)
  IN sqlTemplate(<< <<fn, "(">>, <<",", " ">>, <<")">> >>, <<v1, v2>>)

\* sql`fn(${v})`
Unary(fn, vec) ==
  LET v == toVectorSql(vec)
  IN sqlTemplate(<< <<fn, "(">>, <<")">> >>, <<v>>)

vec_distance_L2(vec1, vec2) == Binary("vec_distance_L2", vec1, vec2)
vec_distance_cosine(vec1, vec2) == Binary("vec_distance_cosine", vec1, vec2)
vec_add(vec1, vec2) == Binary("vec_add", vec1, vec2)
vec_sub(vec1, vec2) == Binary("vec_sub", vec1, vec2)
vec_length(vec) == Unary("vec_length", vec)
vec_normalize(vec) == Unary("vec_normalize", vec)
vec_to_json(vec) == Unary("vec_to_json", vec)
vec_quantize_i8(vec) == Unary("vec_quantize_i8", vec)
vec_quantize_binary(vec) == Unary("vec_quantize_binary", vec)

vec_slice(vec, start, end) ==
  LET v == toVectorSql(vec)
  IN sqlTemplate(<< <<"vec_slice", "(">>, <<",", " ">>, <<",", " ">>, <<")">> >>,
                 <<v, Value(NumberValue(start)), Value(NumberValue(end))>>)

\* jsonArray is a string (bound as a value) or an SQL expression (spliced)
vec_f32(jsonArray) ==
  sqlTemplate(<< <<"vec_f32", "(">>, <<")">> >>,
              << IF jsonArray.shape = "sql" THEN jsonArray.v ELSE Value(StringValue(jsonArray.v)) >>)

\* The bytes a Buffer exposes
BufferBytes(b) == SubSeq(b.storage, b.byteOffset + 1, b.byteOffset + b.byteLength)

Vectors == UNION {[1..n -> Numbers] : n \in 0..MaxLen}

NoCall == [fn |-> "none", args |-> <<>>, depth |-> 0]
NoFrag == [k |-> "none"]
NoResult == [ok |-> TRUE, error |-> "", value |-> <<>>]

InitCodec ==
  /\ op = "init"
  /\ vector \in Vectors
  /\ buffer = NoBuffer
  /\ decoded = NoResult
  /\ call = NoCall
  /\ frag = NoFrag
  /\ builders = <<>>
  /\ tables = <<>>
  /\ ddl = ""

SerializeVector ==
  /\ op = "init"
  /\ op' = "serializeVector"
  /\ buffer' = serializeVector(vector)
  /\ UNCHANGED <<vector, decoded, call, frag, schemaVars>>

\* The caller narrows the serialized buffer with Buffer.subarray(start, end);
\* the view shares the storage of the buffer it was cut from.
Subarray ==
  /\ op = "serializeVector"
  /\ \E start \in 0..buffer.byteLength : \E end \in start..buffer.byteLength :
       /\ start # 0 \/ end # buffer.byteLength
       /\ start <= 5
       /\ buffer' = [storage |-> buffer.storage,
                     byteOffset |-> buffer.byteOffset + start,
                     byteLength |-> end - start]
  /\ op' = "subarray"
  /\ UNCHANGED <<vector, decoded, call, frag, schemaVars>>

DeserializeVector ==
  /\ op \in {"serializeVector", "subarray"}
  /\ op' = IF op = "serializeVector" THEN "roundTrip" ELSE "deserializeVector"
  /\ decoded' = deserializeVector(buffer)
  /\ UNCHANGED <<vector, buffer, call, frag, schemaVars>>

NextCodec == SerializeVector \/ Subarray \/ DeserializeVector

SpecCodec == InitCodec /\ [][NextCodec]_vars

(***************************************************************************)
(* Expression builder calls.  A call either takes only literal and column  *)
(* operands, or takes the fragment returned last as a nested operand.      *)
(***************************************************************************)
Literals == {<<>>, <<One, Tenth>>}
ColumnNames == {<<"embedding">>, <<"a", " ", "b">>, <<"x", "\"", "y">>}
Ks == {1, 10}
SliceStarts == {0, 1}
SliceEnds == {2}
JsonTexts == {"[1.0, 2.0]"}

\* A vector expression returned last may become an operand (a match
\* predicate is a condition, not a vector expression)
NestingAllowed ==
  frag # NoFrag /\ call.depth < MaxDepth /\ op \notin {"vectorMatch", "knnWhere"}

\* Operand choices: the literals, the column objects, and the last fragment
LiteralList == <<<<>>, <<One, Tenth>>>>
ColumnList == <<Column(<<"documents">>, <<"embedding">>)>>
OperandIds == 1..(Len(LiteralList) + Len(ColumnList) + (IF NestingAllowed THEN 1 ELSE 0))
Operand(i) ==
  IF i <= Len(LiteralList) THEN Lit(LiteralList[i])
  ELSE IF i <= Len(LiteralList) + Len(ColumnList) THEN Col(ColumnList[i - Len(LiteralList)])
  ELSE Nested(frag)

\* Either the first call of an expression (leaves only), or a call that
\* nests the last fragment.
Admissible(args) ==
  IF frag = NoFrag THEN \A i \in 1..Len(args) : args[i].shape # "sql"
  ELSE \E i \in 1..Len(args) : args[i].shape = "sql"

DepthOf(args) ==
  IF \E i \in 1..Len(args) : args[i].shape = "sql" THEN call.depth + 1 ELSE 0

Returned(fn, args, q) ==
  /\ op' = fn
  /\ call' = [fn |-> fn, args |-> args, depth |-> DepthOf(args)]
  /\ frag' = q
  /\ UNCHANGED <<codecVars, schemaVars>>

InitExpr ==
  /\ op = "init"
  /\ vector = <<>>
  /\ buffer = NoBuffer
  /\ decoded = NoResult
  /\ call = NoCall
  /\ frag = NoFrag
  /\ builders = <<>>
  /\ tables = <<>>
  /\ ddl = ""

\* The column is given as a string or as a column object
VectorMatch ==
  /\ frag = NoFrag
  /\ \E queryVector \in Literals : \E k \in Ks :
       \/ \E n \in ColumnNames :
            Returned("vectorMatch", <<Str(n), Lit(queryVector), Num(k)>>,
                     vectorMatch(Str(n), queryVector, k))
       \/ \E c \in 1..Len(ColumnList) :
            Returned("vectorMatch", <<Col(ColumnList[c]), Lit(queryVector), Num(k)>>,
                     vectorMatch(Col(ColumnList[c]), queryVector, k))

KnnWhere ==
  /\ frag = NoFrag
  /\ \E column \in ColumnNames : \E queryVector \in Literals : \E k \in Ks :
       Returned("knnWhere", <<Str(column), Lit(queryVector), Num(k)>>,
                knnWhere(column, queryVector, k))

VecDistanceL2 ==
  \E i \in OperandIds : \E j \in OperandIds :
    LET vec1 == Operand(i)
        vec2 == Operand(j)
    IN /\ Admissible(<<vec1, vec2>>)
       /\ Returned("vec_distance_L2", <<vec1, vec2>>, vec_distance_L2(vec1, vec2))

VecDistanceCosine ==
  \E i \in OperandIds : \E j \in OperandIds :
    LET vec1 == Operand(i)
        vec2 == Operand(j)
    IN /\ Admissible(<<vec1, vec2>>)
       /\ Returned("vec_distance_cosine", <<vec1, vec2>>, vec_distance_cosine(vec1, vec2))

VecAdd ==
  \E i \in OperandIds : \E j \in OperandIds :
    LET vec1 == Operand(i)
        vec2 == Operand(j)
    IN /\ Admissible(<<vec1, vec2>>)
       /\ Returned("vec_add", <<vec1, vec2>>, vec_add(vec1, vec2))

VecSub ==
  \E i \in OperandIds : \E j \in OperandIds :
    LET vec1 == Operand(i)
        vec2 == Operand(j)
    IN /\ Admissible(<<vec1, vec2>>)
       /\ Returned("vec_sub", <<vec1, vec2>>, vec_sub(vec1, vec2))

VecLength ==
  \E i \in OperandIds :
    LET vec == Operand(i)
    IN /\ Admissible(<<vec>>)
       /\ Returned("vec_length", <<vec>>, vec_length(vec))

VecNormalize ==
  \E i \in OperandIds :
    LET vec == Operand(i)
    IN /\ Admissible(<<vec>>)
       /\ Returned("vec_normalize", <<vec>>, vec_normalize(vec))

VecToJson ==
  \E i \in OperandIds :
    LET vec == Operand(i)
    IN /\ Admissible(<<vec>>)
       /\ Returned("vec_to_json", <<vec>>, vec_to_json(vec))

VecQuantizeI8 ==
  \E i \in OperandIds :
    LET vec == Operand(i)
    IN /\ Admissible(<<vec>>)
       /\ Returned("vec_quantize_i8", <<vec>>, vec_quantize_i8(vec))

VecQuantizeBinary ==
  \E i \in OperandIds :
    LET vec == Operand(i)
    IN /\ Admissible(<<vec>>)
       /\ Returned("vec_quantize_binary", <<vec>>, vec_quantize_binary(vec))

VecSlice ==
  \E i \in OperandIds : \E start \in SliceStarts : \E end \in SliceEnds :
    LET vec == Operand(i)
    IN /\ Admissible(<<vec>>)
       /\ Returned("vec_slice", <<vec, Num(start), Num(end)>>, vec_slice(vec, start, end))

VecF32 ==
  \/ /\ frag = NoFrag
     /\ \E t \in JsonTexts : Returned("vec_f32", <<Str(t)>>, vec_f32(Str(t)))
  \/ /\ NestingAllowed
     /\ Returned("vec_f32", <<Nested(frag)>>, vec_f32(Nested(frag)))

NextExpr ==
  \/ VectorMatch \/ KnnWhere
  \/ VecDistanceL2 \/ VecDistanceCosine \/ VecAdd \/ VecSub
  \/ VecLength \/ VecNormalize \/ VecToJson \/ VecQuantizeI8 \/ VecQuantizeBinary
  \/ VecSlice \/ VecF32

SpecExpr == InitExpr /\ [][NextExpr]_vars

(***************************************************************************)
(* Schema builder.  An optional field is <<>> when absent and <<x>> when   *)
(* set.  A builder owns one config object; build() hands out that very     *)
(* object, so a table's columns are references into `builders`.            *)
(***************************************************************************)
Vec0ColumnBuilder(name, type, dimensions) ==
  [name |-> name, type |-> type, dimensions |-> dimensions,
   primaryKey |-> <<>>, distanceMetric |-> <<>>]

vecFloat(name, dimensions) == Vec0ColumnBuilder(name, "float", <<dimensions>>)
vecInt8(name, dimensions) == Vec0ColumnBuilder(name, "int8", <<dimensions>>)
vecBit(name, dimensions) == Vec0ColumnBuilder(name, "bit", <<dimensions>>)
vecInteger(name) == Vec0ColumnBuilder(name, "integer", <<>>)
vecText(name) == Vec0ColumnBuilder(name, "text", <<>>)
vecBlob(name) == Vec0ColumnBuilder(name, "blob", <<>>)

primaryKey(config) == [config EXCEPT !.primaryKey = <<TRUE>>]
distanceMetric(config, metric) == [config EXCEPT !.distanceMetric = <<metric>>]

\* JavaScript truthiness of an optional number / string / optional flag
TruthyNumber(d) == d # <<>> /\ d[1] # 0
TruthyString(x) == x # ""
TruthyOptional(o) == o # <<>>

\* Property keys that are array indices, and their numeric value
ArrayIndex(key) == CASE key = "0" -> 0 [] key = "1" -> 1 [] key = "2" -> 2 [] OTHER -> -1
IsArrayIndex(key) == ArrayIndex(key) >= 0

RECURSIVE SortByIndex(_)
SortByIndex(entries) ==
  IF entries = <<>> THEN <<>>
  ELSE LET m == CHOOSE i \in 1..Len(entries) :
                  \A j \in 1..Len(entries) :
                    ArrayIndex(entries[i].key) <= ArrayIndex(entries[j].key)
       IN <<entries[m]>>
            \o SortByIndex(SubSeq(entries, 1, m - 1) \o SubSeq(entries, m + 1, Len(entries)))

IndexEntry(e) == IsArrayIndex(e.key)
NamedEntry(e) == ~IsArrayIndex(e.key)

\* Object.entries(columns): array-index keys in ascending order first, then
\* the other keys in insertion order.  `columns` lists the properties in the
\* order they were inserted.
ObjectEntries(columns) ==
  SortByIndex(SelectSeq(columns, IndexEntry)) \o SelectSeq(columns, NamedEntry)

\* The loop of vec0Table over the entries: build() returns the builder's own
\* config, whose empty name is overwritten by the key.
RECURSIVE BuildAll(_, _)
BuildAll(entries, heap) ==
  IF entries = <<>> THEN heap
  ELSE LET e == Head(entries)
           config == heap[e.builder]
           heap1 == IF ~TruthyString(config.name)
                    THEN [heap EXCEPT ![e.builder].name = e.key]
                    ELSE heap
       IN BuildAll(Tail(entries), heap1)

\* vec0Table over a given set of builder objects.  `internal` is the set of
\* builders no caller holds a reference to (none for vec0Table).
Vec0TableOf(heap, name, columns) ==
  LET entries == ObjectEntries(columns)
  IN [heap |-> BuildAll(entries, heap),
      table |-> [name |-> name,
                 columns |-> [i \in 1..Len(entries) |-> entries[i].builder],
                 declared |-> columns,
                 internal |-> {}]]

vec0Table(name, columns) == Vec0TableOf(builders, name, columns)

\* An object literal with two computed keys: an equal second key overwrites
\* the value of the first and keeps its position.
ObjectLiteral(key1, value1, key2, value2) ==
  IF key1 = key2 THEN <<[key |-> key1, builder |-> value2]>>
  ELSE <<[key |-> key1, builder |-> value1], [key |-> key2, builder |-> value2]>>

shadowVec0Table(options) ==
  LET id == Len(builders) + 1
      vec == Len(builders) + 2
      heap == builders \o <<primaryKey(vecInteger(options.idColumn)),
                            vecFloat(options.vectorColumn, options.dimensions)>>
      r == Vec0TableOf(heap, options.tableName,
                       ObjectLiteral(options.idColumn, id, options.vectorColumn, vec))
  IN [heap |-> r.heap, table |-> [r.table EXCEPT !.internal = {id, vec}]]

\* A column definition that tests only the presence of dimensions, so that
\* 0 is bracketed like any other number
ColumnDefBracketingZero(col) ==
  IF col.type \in {"float", "int8", "bit"} /\ col.dimensions # <<>>
  THEN col.name \o " " \o col.type \o "[" \o ToString(col.dimensions[1]) \o "]"
  ELSE col.name

\* A column definition that renders the key mark and the metric for every
\* column kind
ColumnDefMarkingAll(col) ==
  LET key == IF TruthyOptional(col.primaryKey) THEN " primary key" ELSE ""
      metric == IF TruthyOptional(col.distanceMetric)
                THEN " distance_metric=" \o col.distanceMetric[1] ELSE ""
  IN IF col.type \in {"float", "int8", "bit"} /\ TruthyNumber(col.dimensions)
     THEN col.name \o " " \o col.type \o "[" \o ToString(col.dimensions[1]) \o "]"
            \o (IF col.type = "bit" THEN "" ELSE metric) \o key
     ELSE IF col.type \in {"integer", "text", "blob"}
     THEN col.name \o " " \o col.type \o metric \o key
     ELSE col.name

\* One column definition of createSQL
ColumnDef(col) ==
  LET def == col.name IN
  IF col.type = "float" /\ TruthyNumber(col.dimensions) THEN
    def \o " float[" \o ToString(col.dimensions[1]) \o "]"
        \o (IF TruthyOptional(col.distanceMetric)
            THEN " distance_metric=" \o col.distanceMetric[1] ELSE "")
  ELSE IF col.type = "int8" /\ TruthyNumber(col.dimensions) THEN
    def \o " int8[" \o ToString(col.dimensions[1]) \o "]"
        \o (IF TruthyOptional(col.distanceMetric)
            THEN " distance_metric=" \o col.distanceMetric[1] ELSE "")
  ELSE IF col.type = "bit" /\ TruthyNumber(col.dimensions) THEN
    def \o " bit[" \o ToString(col.dimensions[1]) \o "]"
  ELSE IF col.type = "integer" THEN
    def \o " integer" \o (IF TruthyOptional(col.primaryKey) THEN " primary key" ELSE "")
  ELSE IF col.type = "text" THEN def \o " text"
  ELSE IF col.type = "blob" THEN def \o " blob"
  ELSE def

\* Array.join(separator)
RECURSIVE Join(_, _)
Join(items, sep) ==
  IF items = <<>> THEN ""
  ELSE IF Len(items) = 1 THEN items[1]
  ELSE items[1] \o sep \o Join(Tail(items), sep)

\* A createSQL that also declared the rowid column itself
createSQLWithRowid(t) ==
  "CREATE VIRTUAL TABLE IF NOT EXISTS " \o t.name \o " USING vec0("
    \o Join(<<"rowid integer">> \o [i \in 1..Len(t.columns) |-> ColumnDef(builders[t.columns[i]])],
            ", ") \o ")"

createSQL(t) ==
  LET columnDefs == [i \in 1..Len(t.columns) |-> ColumnDef(builders[t.columns[i]])]
  IN "CREATE VIRTUAL TABLE IF NOT EXISTS " \o t.name \o " USING vec0("
       \o Join(columnDefs, ", ") \o ")"

dropSQL(t) == "DROP TABLE IF EXISTS " \o t.name

(***************************************************************************)
(* Schema builder calls                                                    *)
(***************************************************************************)
VectorNames == {"embedding", ""}
AuxNames == {"id"}
Dims == {4, 0, -4}
Metrics == {"L2", "cosine"}
TableNames == {"items_vec"}
Keys == {"k", "1"}
IdColumns == {"id"}
VectorColumns == {"embedding", "id", "1"}

\* The number of primaryKey()/distanceMetric() settings made so far
RECURSIVE Mutations(_)
Mutations(heap) ==
  IF heap = <<>> THEN 0
  ELSE (IF Head(heap).primaryKey # <<>> THEN 1 ELSE 0)
       + (IF Head(heap).distanceMetric # <<>> THEN 1 ELSE 0) + Mutations(Tail(heap))

\* The builders a run may create: one per key of a columns object
CanCreate == Len(builders) < Cardinality(Keys)

Created(fn, config) ==
  /\ CanCreate
  /\ builders' = Append(builders, config)
  /\ op' = fn
  /\ call' = [fn |-> fn, args |-> <<Len(builders) + 1>>, depth |-> 0]
  /\ ddl' = ""
  /\ UNCHANGED <<codecVars, frag, tables>>

InitSchema ==
  /\ op = "init"
  /\ vector = <<>>
  /\ buffer = NoBuffer
  /\ decoded = NoResult
  /\ call = NoCall
  /\ frag = NoFrag
  /\ builders = <<>>
  /\ tables = <<>>
  /\ ddl = ""

VecFloat == \E name \in VectorNames : \E d \in Dims : Created("vecFloat", vecFloat(name, d))
VecInt8 == \E name \in VectorNames : \E d \in Dims : Created("vecInt8", vecInt8(name, d))
VecBit == \E name \in VectorNames : \E d \in Dims : Created("vecBit", vecBit(name, d))
VecInteger == \E name \in AuxNames : Created("vecInteger", vecInteger(name))
VecText == \E name \in AuxNames : Created("vecText", vecText(name))
VecBlob == \E name \in AuxNames : Created("vecBlob", vecBlob(name))

\* The builders the caller holds a reference to
Held == {b \in 1..Len(builders) : \A t \in 1..Len(tables) : b \notin tables[t].internal}

PrimaryKey ==
  \E b \in Held :
    /\ Mutations(builders) < MaxMutations
    /\ builders[b].primaryKey = <<>>
    /\ builders' = [builders EXCEPT ![b] = primaryKey(builders[b])]
    /\ op' = "primaryKey"
    /\ call' = [fn |-> "primaryKey", args |-> <<b>>, depth |-> 0]
    /\ ddl' = ""
    /\ UNCHANGED <<codecVars, frag, tables>>

DistanceMetric ==
  \E b \in Held : \E metric \in Metrics :
    /\ Mutations(builders) < MaxMutations
    /\ builders[b].distanceMetric = <<>>
    /\ builders' = [builders EXCEPT ![b] = distanceMetric(builders[b], metric)]
    /\ op' = "distanceMetric"
    /\ call' = [fn |-> "distanceMetric", args |-> <<b>>, depth |-> 0]
    /\ ddl' = ""
    /\ UNCHANGED <<codecVars, frag, tables>>

\* The columns objects a caller can pass: distinct keys in any insertion
\* order, each holding one of the builders made so far.
ColumnsObjects ==
  UNION { { [i \in 1..n |-> [key |-> ks[i], builder |-> bs[i]]] :
              ks \in {f \in [1..n -> Keys] : \A i, j \in 1..n : i # j => f[i] # f[j]},
              bs \in [1..n -> Held] } :
          n \in 1..Cardinality(Keys) }

Vec0Table ==
  \E name \in TableNames : \E columns \in ColumnsObjects :
    /\ \A i \in 1..Len(tables) : tables[i].name # name
    /\ LET r == vec0Table(name, columns) IN
         /\ builders' = r.heap
         /\ tables' = Append(tables, r.table)
    /\ op' = "vec0Table"
    /\ call' = [fn |-> "vec0Table", args |-> <<Len(tables) + 1>>, depth |-> 0]
    /\ ddl' = ""
    /\ UNCHANGED <<codecVars, frag>>

ShadowOptions ==
  [tableName : TableNames, idColumn : IdColumns, vectorColumn : VectorColumns,
   dimensions : Dims]

ShadowVec0Table ==
  \E options \in ShadowOptions :
    /\ Len(builders) + 2 <= Cardinality(Keys)
    /\ \A i \in 1..Len(tables) : tables[i].name # options.tableName
    /\ LET r == shadowVec0Table(options) IN
         /\ builders' = r.heap
         /\ tables' = Append(tables, r.table)
    /\ op' = "shadowVec0Table"
    /\ call' = [fn |-> "shadowVec0Table", args |-> <<Len(tables) + 1, options>>, depth |-> 0]
    /\ ddl' = ""
    /\ UNCHANGED <<codecVars, frag>>

CreateSQL ==
  \E t \in 1..Len(tables) :
    /\ ddl' = createSQL(tables[t])
    /\ op' = "createSQL"
    /\ call' = [fn |-> "createSQL", args |-> <<t>>, depth |-> 0]
    /\ UNCHANGED <<codecVars, frag, builders, tables>>

NextSchema ==
  \/ VecFloat \/ VecInt8 \/ VecBit \/ VecInteger \/ VecText \/ VecBlob
  \/ PrimaryKey \/ DistanceMetric
  \/ Vec0Table \/ ShadowVec0Table \/ CreateSQL

SpecSchema == InitSchema /\ [][NextSchema]_vars

(***************************************************************************)
(* DML helpers.  A values map is a function from keys to JavaScript        *)
(* values; a key the map does not have reads as undefined.                 *)
(***************************************************************************)
JsUndefined == [t |-> "undefined", buf |-> NoBuffer, num |-> 0, str |-> ""]
NullValue == [t |-> "null", buf |-> NoBuffer, num |-> 0, str |-> ""]
JsArray(v) == [t |-> "array", buf |-> NoBuffer, num |-> 0, str |-> "", arr |-> v]

\* values[name]
Get(values, name) == IF name \in DOMAIN values THEN values[name] ELSE JsUndefined

\* sql.join(chunks, separator)
RECURSIVE JoinChunks(_, _)
JoinChunks(chunks, separator) ==
  IF Len(chunks) <= 1 THEN chunks
  ELSE <<Head(chunks), separator>> \o JoinChunks(Tail(chunks), separator)

sqlJoin(chunks, separator) == SQL(JoinChunks(chunks, separator))

Comma == sqlTemplate(<< <<",", " ">> >>, <<>>)

isVectorColumn(config) ==
  config.type = "float" \/ config.type = "int8" \/ config.type = "bit"

\* A serializeValue that encoded float columns only
serializeValueFloatOnly(value, config) ==
  IF value.t = "null" \/ value.t = "undefined" THEN NullValue
  ELSE IF config.type = "float" /\ value.t = "array" THEN BufferValue(serializeVector(value.arr))
  ELSE value

serializeValue(value, config) ==
  IF value.t = "null" \/ value.t = "undefined" THEN NullValue
  ELSE IF isVectorColumn(config) /\ value.t = "array" THEN BufferValue(serializeVector(value.arr))
  ELSE value

\* A helper that returned an empty statement where it should throw
ReturnedEmpty(message) == SQL(<<>>)

\* throw new Error(message): the call returns no statement
Thrown(message) == [k |-> "error", message |-> message]

\* The declared columns (in table order) whose value in the map is present
RECURSIVE Present(_, _)
Present(columns, values) ==
  IF columns = <<>> THEN <<>>
  ELSE (IF Get(values, Head(columns).name) # JsUndefined THEN <<Head(columns)>> ELSE <<>>)
         \o Present(Tail(columns), values)

IdentifierList(columns) ==
  sqlJoin([i \in 1..Len(columns) |-> sqlIdentifier(<<columns[i].name>>)], Comma)

\* sql`${serialized}` for each listed column of one row
ValueList(columns, values) ==
  sqlJoin([i \in 1..Len(columns) |->
             sqlTemplate(<< <<>>, <<>> >>,
                         <<Value(serializeValue(Get(values, columns[i].name), columns[i]))>>)],
          Comma)

\* An insert that listed every declared column, present or not
insertVec0AllColumns(table, values) ==
  sqlTemplate(<< <<"INSERT", " ", "INTO", " ">>, <<" ", "(">>,
                 <<")", " ", "VALUES", " ", "(">>, <<")">> >>,
              <<sqlIdentifier(<<table.name>>), IdentifierList(table.columns),
                ValueList(table.columns, values)>>)

\* An insert that took a null value for an absent one
insertVec0NullAbsent(table, values) ==
  LET columns == Present(table.columns,
                         [key \in DOMAIN values |->
                            IF values[key] = NullValue THEN JsUndefined ELSE values[key]]) IN
  IF Len(columns) = 0 THEN Thrown("insertVec0: No values provided for insert")
  ELSE sqlTemplate(<< <<"INSERT", " ", "INTO", " ">>, <<" ", "(">>,
                      <<")", " ", "VALUES", " ", "(">>, <<")">> >>,
                   <<sqlIdentifier(<<table.name>>), IdentifierList(columns),
                     ValueList(columns, values)>>)

insertVec0(table, values) ==
  LET columns == Present(table.columns, values) IN
  IF Len(columns) = 0 THEN Thrown("insertVec0: No values provided for insert")
  ELSE sqlTemplate(<< <<"INSERT", " ", "INTO", " ">>, <<" ", "(">>,
                      <<")", " ", "VALUES", " ", "(">>, <<")">> >>,
                   <<sqlIdentifier(<<table.name>>), IdentifierList(columns),
                     ValueList(columns, values)>>)

\* An insertMany that took each row's own present columns
insertManyVec0PerRow(table, rows) ==
  IF Len(rows) = 0 THEN Thrown("insertManyVec0: No rows provided for insert")
  ELSE LET columnConfigs == Present(table.columns, rows[1])
           valueSets == [r \in 1..Len(rows) |->
                           sqlTemplate(<< <<"(">>, <<")">> >>,
                                       <<ValueList(Present(table.columns, rows[r]), rows[r])>>)]
       IN IF Len(columnConfigs) = 0
          THEN Thrown("insertManyVec0: No values provided for insert")
          ELSE sqlTemplate(<< <<"INSERT", " ", "INTO", " ">>, <<" ", "(">>,
                              <<")", " ", "VALUES", " ">>, <<>> >>,
                           <<sqlIdentifier(<<table.name>>), IdentifierList(columnConfigs),
                             sqlJoin(valueSets, Comma)>>)

\* The declared columns (in table order) that have a value in some row
RECURSIVE PresentInSome(_, _)
PresentInSome(columns, rows) ==
  IF columns = <<>> THEN <<>>
  ELSE (IF \E r \in 1..Len(rows) : Get(rows[r], Head(columns).name) # JsUndefined
        THEN <<Head(columns)>> ELSE <<>>)
         \o PresentInSome(Tail(columns), rows)

\* An insertMany that listed every column some row has a value for
insertManyVec0SomeRow(table, rows) ==
  IF Len(rows) = 0 THEN Thrown("insertManyVec0: No rows provided for insert")
  ELSE LET columnConfigs == PresentInSome(table.columns, rows)
           valueSets == [r \in 1..Len(rows) |->
                           sqlTemplate(<< <<"(">>, <<")">> >>,
                                       <<ValueList(columnConfigs, rows[r])>>)]
       IN IF Len(Present(table.columns, rows[1])) = 0
          THEN Thrown("insertManyVec0: No values provided for insert")
          ELSE sqlTemplate(<< <<"INSERT", " ", "INTO", " ">>, <<" ", "(">>,
                              <<")", " ", "VALUES", " ">>, <<>> >>,
                           <<sqlIdentifier(<<table.name>>), IdentifierList(columnConfigs),
                             sqlJoin(valueSets, Comma)>>)

insertManyVec0(table, rows) ==
  IF Len(rows) = 0 THEN Thrown("insertManyVec0: No rows provided for insert")
  ELSE LET columnConfigs == Present(table.columns, rows[1])
           valueSets == [r \in 1..Len(rows) |->
                           sqlTemplate(<< <<"(">>, <<")">> >>,
                                       <<ValueList(columnConfigs, rows[r])>>)]
       IN IF Len(columnConfigs) = 0
          THEN Thrown("insertManyVec0: No values provided for insert")
          ELSE sqlTemplate(<< <<"INSERT", " ", "INTO", " ">>, <<" ", "(">>,
                              <<")", " ", "VALUES", " ">>, <<>> >>,
                           <<sqlIdentifier(<<table.name>>), IdentifierList(columnConfigs),
                             sqlJoin(valueSets, Comma)>>)

\* typeof where === 'number' ? sql`rowid = ${where}` : where
WhereClause(where) ==
  IF where.shape = "number"
  THEN sqlTemplate(<< <<"rowid", " ", "=", " ">>, <<>> >>, <<Value(NumberValue(where.v))>>)
  ELSE where.v

deleteVec0(table, where) ==
  sqlTemplate(<< <<"DELETE", " ", "FROM", " ">>, <<" ", "WHERE", " ">>, <<>> >>,
              <<sqlIdentifier(<<table.name>>), WhereClause(where)>>)

SetClauses(columns, values) ==
  [i \in 1..Len(columns) |->
     sqlTemplate(<< <<>>, <<" ", "=", " ">>, <<>> >>,
                 <<sqlIdentifier(<<columns[i].name>>),
                   Value(serializeValue(Get(values, columns[i].name), columns[i]))>>)]

\* An update that rendered the condition before the SET clauses
updateVec0WhereFirst(table, values, where) ==
  LET setClauses == SetClauses(Present(table.columns, values), values) IN
  IF Len(setClauses) = 0 THEN Thrown("updateVec0: No values provided for update")
  ELSE sqlTemplate(<< <<"UPDATE", " ">>, <<" ", "WHERE", " ">>, <<" ", "SET", " ">>, <<>> >>,
                   <<sqlIdentifier(<<table.name>>), WhereClause(where),
                     sqlJoin(setClauses, Comma)>>)

updateVec0(table, values, where) ==
  LET setClauses == SetClauses(Present(table.columns, values), values) IN
  IF Len(setClauses) = 0 THEN Thrown("updateVec0: No values provided for update")
  ELSE sqlTemplate(<< <<"UPDATE", " ">>, <<" ", "SET", " ">>, <<" ", "WHERE", " ">>, <<>> >>,
                   <<sqlIdentifier(<<table.name>>), sqlJoin(setClauses, Comma),
                     WhereClause(where)>>)

(***************************************************************************)
(* DML helper calls on one finalized table                                 *)
(***************************************************************************)
MaxRows == 2

\* The table definitions the statements are built for
DmlSchemas ==
  << [heap |-> <<primaryKey(vecInteger("id")), vecFloat("embedding", 4)>>,
      name |-> "items_vec",
      columns |-> <<[key |-> "id", builder |-> 1], [key |-> "embedding", builder |-> 2]>>],
     [heap |-> <<vecInt8("embedding", 4), vecText("id")>>,
      name |-> "items_vec",
      columns |-> <<[key |-> "embedding", builder |-> 1], [key |-> "id", builder |-> 2]>>],
     [heap |-> <<vecBit("embedding", 8), vecInteger("id")>>,
      name |-> "bits_vec",
      columns |-> <<[key |-> "embedding", builder |-> 1], [key |-> "id", builder |-> 2]>>] >>

DmlKeys == {"id", "embedding", "other"}

ValuesOf(key) ==
  CASE key = "id" -> {JsUndefined, NullValue, NumberValue(1), StringValue("a")}
    [] key = "embedding" -> {JsUndefined, NullValue, JsArray(<<One, Tenth>>), JsArray(<<>>)}
    [] OTHER -> {JsUndefined, NumberValue(7)}

ValueMaps ==
  {f \in [DmlKeys -> UNION {ValuesOf(key) : key \in DmlKeys}] :
     \A key \in DmlKeys : f[key] \in ValuesOf(key)}

\* The rows insertManyVec0 is called with
ManyRows ==
  {f \in ValueMaps :
     /\ f["other"] = JsUndefined
     /\ f["id"] \in {JsUndefined, NumberValue(1)}
     /\ f["embedding"] \in {JsUndefined, JsArray(<<One, Tenth>>)}}

RowLists == UNION {[1..n -> ManyRows] : n \in 0..MaxRows}

\* Where conditions: a rowid, or a pre-built condition
WhereList ==
  << Num(1),
     Nested(sqlTemplate(<< <<"id", " ", "=", " ">>, <<>> >>, <<Value(NumberValue(5))>>)),
     Num(0),
     Num(-1) >>

\* The table object with its column configs
TableObject(t) ==
  [name |-> tables[t].name,
   columns |-> [i \in 1..Len(tables[t].columns) |-> builders[tables[t].columns[i]]]]

InitDml ==
  /\ op = "init"
  /\ vector = <<>>
  /\ buffer = NoBuffer
  /\ decoded = NoResult
  /\ call = NoCall
  /\ frag = NoFrag
  /\ ddl = ""
  /\ \E i \in 1..Len(DmlSchemas) :
       LET r == Vec0TableOf(DmlSchemas[i].heap, DmlSchemas[i].name, DmlSchemas[i].columns)
       IN builders = r.heap /\ tables = <<r.table>>

\* A helper that kept one SQL object across calls and appended to it
DmlReturnedIntoShared(fn, args, result) ==
  /\ op' = fn
  /\ call' = [fn |-> fn, args |-> args, depth |-> 0]
  /\ frag' = IF frag.k = "sql" /\ result.k = "sql" THEN sqlAppend(frag, result) ELSE result
  /\ UNCHANGED <<codecVars, schemaVars>>

DmlReturned(fn, args, result) ==
  /\ op' = fn
  /\ call' = [fn |-> fn, args |-> args, depth |-> 0]
  /\ frag' = result
  /\ UNCHANGED <<codecVars, schemaVars>>

InsertVec0 ==
  \E t \in 1..Len(tables) : \E values \in ValueMaps :
    DmlReturned("insertVec0", <<t, values>>, insertVec0(TableObject(t), values))

InsertManyVec0 ==
  \E t \in 1..Len(tables) : \E rows \in RowLists :
    DmlReturned("insertManyVec0", <<t, rows>>, insertManyVec0(TableObject(t), rows))

DeleteVec0 ==
  \E t \in 1..Len(tables) : \E w \in 1..Len(WhereList) :
    DmlReturned("deleteVec0", <<t, w>>, deleteVec0(TableObject(t), WhereList[w]))

UpdateVec0 ==
  \E t \in 1..Len(tables) : \E values \in ValueMaps : \E w \in 1..Len(WhereList) :
    DmlReturned("updateVec0", <<t, values, w>>,
                updateVec0(TableObject(t), values, WhereList[w]))

NextDml == InsertVec0 \/ InsertManyVec0 \/ DeleteVec0 \/ UpdateVec0

SpecDml == InitDml /\ [][NextDml]_vars

\* Any interleaving of the statement generators on one finalized table
DropSQL ==
  \E t \in 1..Len(tables) :
    /\ ddl' = dropSQL(tables[t])
    /\ op' = "dropSQL"
    /\ call' = [fn |-> "dropSQL", args |-> <<t>>, depth |-> 0]
    /\ UNCHANGED <<codecVars, frag, builders, tables>>

NextCalls == CreateSQL \/ DropSQL \/ NextDml

SpecCalls == InitDml /\ [][NextCalls]_vars

(***************************************************************************)
(* Search query builders.  Names are sequences of pieces; a line break of  *)
(* the template together with its indentation is the piece "\n".           *)
(***************************************************************************)
\* const { limit = 10 } = options
LimitOf(options) == IF options.limit = <<>> THEN 10 ELSE options.limit[1]

buildVectorSearchQuery(tableName, vectorColumn, queryVector, options) ==
  LET limit == LimitOf(options)
      vectorBuffer == serializeVector(queryVector)
  IN sqlTemplate(<< <<"\n", "SELECT", " ", "rowid", ",", " ", "distance", "\n", "FROM", " ">>,
                    <<"\n", "WHERE", " ">>,
                    <<" ", "MATCH", " ">>,
                    <<"\n", "AND", " ", "k", " ", "=", " ">>,
                    <<"\n", "ORDER", " ", "BY", " ", "distance", "\n">> >>,
                 <<sqlIdentifier(tableName), sqlIdentifier(vectorColumn),
                   Value(BufferValue(vectorBuffer)), Value(NumberValue(limit))>>)

\* joinColumn.replace(/_id$/, ''): a trailing "_id" is the last piece
WithoutIdSuffix(joinColumn) ==
  IF joinColumn # <<>> /\ joinColumn[Len(joinColumn)] = "_id"
  THEN SubSeq(joinColumn, 1, Len(joinColumn) - 1)
  ELSE joinColumn

\* The column the join condition names
JoinedColumn(joinColumn) ==
  IF WithoutIdSuffix(joinColumn) = joinColumn THEN <<"id">> ELSE WithoutIdSuffix(joinColumn)

buildVectorSearchWithJoin(vecTableName, dataTableName, vectorColumn, joinColumn, queryVector, options) ==
  LET limit == LimitOf(options)
      vectorBuffer == serializeVector(queryVector)
  IN sqlTemplate(<< <<"\n", "SELECT", " ">>,
                    <<".", "*", ",", " ", "vec_results", ".", "distance", "\n", "FROM", " ">>,
                    <<"\n", "INNER", " ", "JOIN", " ", "(", "\n", "SELECT", " ", "rowid", ",",
                      " ", "distance", "\n", "FROM", " ">>,
                    <<"\n", "WHERE", " ">>,
                    <<" ", "MATCH", " ">>,
                    <<"\n", "AND", " ", "k", " ", "=", " ">>,
                    <<"\n", ")", " ", "AS", " ", "vec_results", " ", "ON", " ">>,
                    <<".">>,
                    <<" ", "=", " ", "vec_results", ".", "rowid", "\n", "ORDER", " ", "BY",
                      " ", "vec_results", ".", "distance", "\n">> >>,
                 <<sqlIdentifier(dataTableName), sqlIdentifier(dataTableName),
                   sqlIdentifier(vecTableName), sqlIdentifier(vectorColumn),
                   Value(BufferValue(vectorBuffer)), Value(NumberValue(limit)),
                   sqlIdentifier(dataTableName), sqlIdentifier(JoinedColumn(joinColumn))>>)

(***************************************************************************)
(* Search query builder calls                                              *)
(***************************************************************************)
SearchTables == {<<"items_vec">>, <<"documents_vec">>}
SearchColumns == {<<"embedding">>, <<"vec">>}
DataTables == {<<"documents">>}
JoinColumns == {<<"id">>, <<"document", "_id">>, <<"doc_ref">>, <<"_id">>}
SearchOptions ==
  [limit : {<<>>, <<5>>}, maxDistance : {<<>>, <<2>>},
   metric : {<<>>, <<"L2">>, <<"cosine">>}, minSimilarity : {<<>>, <<1>>}]

SearchReturned(fn, args, result) ==
  /\ op = "init"
  /\ op' = fn
  /\ call' = [fn |-> fn, args |-> args, depth |-> 0]
  /\ frag' = result
  /\ UNCHANGED <<codecVars, schemaVars>>

BuildVectorSearchQuery ==
  \E tableName \in SearchTables : \E vectorColumn \in SearchColumns :
    \E queryVector \in Literals : \E options \in SearchOptions :
      SearchReturned("buildVectorSearchQuery",
                     [options |-> options, queryVector |-> queryVector,
                      tableName |-> tableName, vectorColumn |-> vectorColumn],
                     buildVectorSearchQuery(tableName, vectorColumn, queryVector, options))

BuildVectorSearchWithJoin ==
  \E vecTableName \in SearchTables : \E dataTableName \in DataTables :
    \E vectorColumn \in SearchColumns : \E joinColumn \in JoinColumns :
      \E queryVector \in Literals : \E options \in SearchOptions :
        SearchReturned("buildVectorSearchWithJoin",
                       [dataTableName |-> dataTableName, joinColumn |-> joinColumn,
                        options |-> options, queryVector |-> queryVector,
                        vecTableName |-> vecTableName, vectorColumn |-> vectorColumn],
                       buildVectorSearchWithJoin(vecTableName, dataTableName, vectorColumn,
                                                 joinColumn, queryVector, options))

NextSearch == BuildVectorSearchQuery \/ BuildVectorSearchWithJoin

SpecSearch == InitExpr /\ [][NextSearch]_vars

(***************************************************************************)
(* Vector utilities.  A call returns a value or throws; numbers computed   *)
(* with Math.sqrt or a division are kept as the expression over the exact  *)
(* integer sums (the inputs are small integers).                           *)
(***************************************************************************)
ReturnedValue(v) == [k |-> "value", v |-> v]

NaNValue == [t |-> "NaN", buf |-> NoBuffer, num |-> 0, str |-> ""]

RECURSIVE SumOfProducts(_, _)
SumOfProducts(a, b) ==
  IF a = <<>> \/ b = <<>> THEN 0
  ELSE Head(a) * Head(b) + SumOfProducts(Tail(a), Tail(b))

Difference(a, b) == [i \in 1..Len(a) |-> a[i] - b[i]]

\* A distance that compared the common prefix of vectors of unequal length
l2DistanceOverPrefix(a, b) ==
  LET n == IF Len(a) < Len(b) THEN Len(a) ELSE Len(b)
      diff == Difference(SubSeq(a, 1, n), SubSeq(b, 1, n))
  IN ReturnedValue([fn |-> "sqrt", x |-> SumOfProducts(diff, diff), y |-> 0, z |-> 0])

l2Distance(a, b) ==
  IF Len(a) # Len(b) THEN Thrown("Vectors must have the same dimensions")
  ELSE LET diff == Difference(a, b)
       IN ReturnedValue([fn |-> "sqrt", x |-> SumOfProducts(diff, diff), y |-> 0, z |-> 0])

cosineSimilarity(a, b) ==
  IF Len(a) # Len(b) THEN Thrown("Vectors must have the same dimensions")
  ELSE LET dot == SumOfProducts(a, b)
           normA == SumOfProducts(a, a)
           normB == SumOfProducts(b, b)
       IN IF normA = 0 \/ normB = 0
          THEN ReturnedValue([fn |-> "number", x |-> 0, y |-> 0, z |-> 0])
          ELSE ReturnedValue([fn |-> "x/(sqrt(y)*sqrt(z))", x |-> dot, y |-> normA, z |-> normB])

cosineDistance(a, b) ==
  LET similarity == cosineSimilarity(a, b) IN
  IF similarity.k = "error" THEN similarity
  ELSE IF similarity.v.fn = "number"
  THEN ReturnedValue([similarity.v EXCEPT !.x = 1 - similarity.v.x])
  ELSE ReturnedValue([similarity.v EXCEPT !.fn = "1-x/(sqrt(y)*sqrt(z))"])

dotProduct(a, b) ==
  IF Len(a) # Len(b) THEN Thrown("Vectors must have the same dimensions")
  ELSE ReturnedValue([fn |-> "number", x |-> SumOfProducts(a, b), y |-> 0, z |-> 0])

typedVector(dimensions, values) ==
  IF Len(values) # dimensions
  THEN Thrown("Vector dimension mismatch: expected " \o ToString(dimensions)
                \o ", got " \o ToString(Len(values)))
  ELSE ReturnedValue(values)

\* A validation that compared the length before looking at the elements
validateVectorLengthFirst(value, dimensions) ==
  IF value.t # "array" THEN Thrown("Vector must be an array")
  ELSE IF dimensions # <<>> /\ Len(value.arr) # dimensions[1]
  THEN Thrown("Vector dimension mismatch: expected " \o ToString(dimensions[1])
                \o ", got " \o ToString(Len(value.arr)))
  ELSE IF ~(\A i \in 1..Len(value.arr) : value.arr[i].t = "number")
  THEN Thrown("Vector must contain only valid numbers")
  ELSE ReturnedValue(TRUE)

validateVector(value, dimensions) ==
  IF value.t # "array" THEN Thrown("Vector must be an array")
  ELSE IF ~(\A i \in 1..Len(value.arr) : value.arr[i].t = "number")
  THEN Thrown("Vector must contain only valid numbers")
  ELSE IF dimensions # <<>> /\ Len(value.arr) # dimensions[1]
  THEN Thrown("Vector dimension mismatch: expected " \o ToString(dimensions[1])
                \o ", got " \o ToString(Len(value.arr)))
  ELSE ReturnedValue(TRUE)

(***************************************************************************)
(* Vector utility calls                                                    *)
(***************************************************************************)
Components == {0, 1, -2}
NumberArrays == UNION {[1..n -> Components] : n \in 0..MaxLen}
Dimensions == 0..(MaxLen + 1)

Elements == {NumberValue(1), NumberValue(2), NaNValue, StringValue("two")}
\* Values that are not arrays
ValidatedList == <<StringValue("not an array"), NullValue, JsUndefined>>
\* The arrays handed to validateVector
ElementArrays == UNION {[1..n -> Elements] : n \in 0..MaxLen}
OptionalDimensions == {<<>>} \cup {<<d>> : d \in Dimensions}

InitUtil ==
  /\ op = "init"
  /\ vector = <<>>
  /\ buffer = NoBuffer
  /\ decoded = NoResult
  /\ call = NoCall
  /\ frag = NoFrag
  /\ builders = <<>>
  /\ tables = <<>>
  /\ ddl = ""

UtilReturned(fn, args, result) ==
  /\ op = "init"
  /\ op' = fn
  /\ call' = [fn |-> fn, args |-> args, depth |-> 0]
  /\ frag' = result
  /\ UNCHANGED <<codecVars, schemaVars>>

L2Distance ==
  \E a \in NumberArrays : \E b \in NumberArrays :
    UtilReturned("l2Distance", <<a, b>>, l2Distance(a, b))

CosineSimilarity ==
  \E a \in NumberArrays : \E b \in NumberArrays :
    UtilReturned("cosineSimilarity", <<a, b>>, cosineSimilarity(a, b))

CosineDistance ==
  \E a \in NumberArrays : \E b \in NumberArrays :
    UtilReturned("cosineDistance", <<a, b>>, cosineDistance(a, b))

DotProduct ==
  \E a \in NumberArrays : \E b \in NumberArrays :
    UtilReturned("dotProduct", <<a, b>>, dotProduct(a, b))

TypedVector ==
  \E d \in Dimensions : \E values \in NumberArrays :
    UtilReturned("typedVector", <<values, d>>, typedVector(d, values))

ValidateVector ==
  \E dimensions \in OptionalDimensions :
    \/ \E i \in 1..Len(ValidatedList) :
         UtilReturned("validateVector", <<ValidatedList[i], dimensions>>,
                      validateVector(ValidatedList[i], dimensions))
    \/ \E arr \in ElementArrays :
         UtilReturned("validateVector", <<JsArray(arr), dimensions>>,
                      validateVector(JsArray(arr), dimensions))

NextUtil ==
  \/ L2Distance \/ CosineSimilarity \/ CosineDistance \/ DotProduct
  \/ TypedVector \/ ValidateVector

SpecUtil == InitUtil /\ [][NextUtil]_vars

(***************************************************************************)
(* Schema builder properties                                               *)
(***************************************************************************)
VectorKinds == {"float", "int8", "bit"}

CalledTable == tables[call.args[1]]
ColumnsOf(t) == [i \in 1..Len(t.columns) |-> builders[t.columns[i]]]

PositiveDimensions(t) ==
  \A i \in 1..Len(t.columns) :
    LET col == builders[t.columns[i]] IN
    col.type \in VectorKinds => col.dimensions # <<>> /\ col.dimensions[1] > 0

\* The definition C9 gives for a column
StatedDef(col) ==
  IF col.type \in VectorKinds
  THEN col.name \o " " \o col.type \o "[" \o ToString(col.dimensions[1]) \o "]"
  ELSE IF col.type = "integer"
  THEN col.name \o " integer" \o (IF col.primaryKey = <<TRUE>> THEN " primary key" ELSE "")
  ELSE col.name \o " " \o col.type

\* The same, with the distance_metric suffix a float or int8 column carries
\* once a metric was set
SuffixedDef(col) ==
  StatedDef(col)
    \o (IF col.type \in {"float", "int8"} /\ col.distanceMetric # <<>>
        THEN " distance_metric=" \o col.distanceMetric[1] ELSE "")

Statement(t, defs) ==
  "CREATE VIRTUAL TABLE IF NOT EXISTS " \o t.name \o " USING vec0(" \o Join(defs, ", ") \o ")"

\* C9 as stated: createSQL() is exactly the CREATE VIRTUAL TABLE statement
\* with one definition per declared column and nothing else, a vector column
\* with positive dimensions being `<name> <kind>[<dimensions>]`, an integer
\* column `<name> integer` plus ` primary key` when marked, text and blob
\* columns `<name> text` and `<name> blob`.
C9_AsStated ==
  (op = "createSQL" /\ PositiveDimensions(CalledTable)) =>
    LET cols == ColumnsOf(CalledTable) IN
    ddl = Statement(CalledTable, [i \in 1..Len(cols) |-> StatedDef(cols[i])])

\* C9 amended: as C9, except that the definition of a float or int8 column
\* on which a distance metric was set is `<name> <kind>[<dimensions>]`
\* followed by ` distance_metric=<metric>`.
C9_CreateSQL ==
  (op = "createSQL" /\ PositiveDimensions(CalledTable)) =>
    LET cols == ColumnsOf(CalledTable) IN
    /\ Len(cols) = Len(CalledTable.declared)
    /\ ddl = Statement(CalledTable, [i \in 1..Len(cols) |-> SuffixedDef(cols[i])])

C9_Witness ==
  /\ op = "createSQL"
  /\ Len(CalledTable.columns) = 2
  /\ ddl = "CREATE VIRTUAL TABLE IF NOT EXISTS items_vec USING vec0(id integer primary key, embedding float[4])"

\* C10 as stated: table.columns (and with it the definitions of createSQL)
\* follow the order in which the columns were inserted into the columns
\* object, also for keys that look like non-negative integers.
C10_AsStated ==
  \A t \in 1..Len(tables) :
    tables[t].columns = [i \in 1..Len(tables[t].declared) |-> tables[t].declared[i].builder]

\* C11 as stated: in createSQL() a vector column (float, int8 or bit) with
\* non-zero dimensions on which distanceMetric(m) was called is defined as
\* `<name> <kind>[<dimensions>] distance_metric=<m>`, m verbatim, and one
\* without a metric has no distance_metric suffix.
MetricDef(col) ==
  StatedDef(col)
    \o (IF col.distanceMetric # <<>> THEN " distance_metric=" \o col.distanceMetric[1] ELSE "")

NonZeroDimensions(col) ==
  col.type \in VectorKinds /\ col.dimensions # <<>> /\ col.dimensions[1] # 0

C11_AsStated ==
  op = "createSQL" =>
    LET cols == ColumnsOf(CalledTable) IN
    ddl = Statement(CalledTable,
                    [i \in 1..Len(cols) |->
                       IF NonZeroDimensions(cols[i]) THEN MetricDef(cols[i])
                       ELSE ColumnDef(cols[i])])

\* C12: schema building never fails and never validates dimensions: a
\* vector column declared with dimensions 0 is defined by its name alone (no
\* `[0]`, the bracketed type is omitted), one with negative dimensions d
\* carries the bracket literally (`<name> <kind>[d]`).
ZeroDimensions(col) == col.type \in VectorKinds /\ col.dimensions = <<0>>
NegativeDimensions(col) == NonZeroDimensions(col) /\ col.dimensions[1] < 0

C12_Dimensions ==
  op = "createSQL" =>
    LET cols == ColumnsOf(CalledTable) IN
    ddl = Statement(CalledTable,
                    [i \in 1..Len(cols) |->
                       IF ZeroDimensions(cols[i]) THEN cols[i].name
                       ELSE IF NegativeDimensions(cols[i]) THEN SuffixedDef(cols[i])
                       ELSE ColumnDef(cols[i])])

C12_Witness ==
  /\ op = "createSQL"
  /\ ddl = "CREATE VIRTUAL TABLE IF NOT EXISTS items_vec USING vec0(1 int8[-4], embedding)"

\* C13 as stated: the column names of every table returned by vec0Table are
\* pairwise distinct, whatever builders and keys were passed.
C13_AsStated ==
  \A t \in 1..Len(tables) :
    LET cols == ColumnsOf(tables[t]) IN
    \A i, j \in 1..Len(cols) : i # j => cols[i].name # cols[j].name

\* C14 as stated: for every options object shadowVec0Table returns a table
\* named tableName with exactly two columns, first an integer primary-key
\* column named idColumn, then a float vector column named vectorColumn with
\* the given dimensions.
C14_AsStated ==
  op = "shadowVec0Table" =>
    LET options == call.args[2]
        cols == ColumnsOf(CalledTable)
    IN /\ CalledTable.name = options.tableName
       /\ Len(cols) = 2
       /\ cols[1] = primaryKey(vecInteger(options.idColumn))
       /\ cols[2] = vecFloat(options.vectorColumn, options.dimensions)

\* C15 as stated: once vec0Table has returned, no later call (primaryKey()
\* or distanceMetric() on an attached builder, or attaching it again) changes
\* the table's column definitions or the result of its createSQL().
Finalized(t) ==
  /\ ColumnsOf(tables[t])' = ColumnsOf(tables[t])
  /\ createSQL(tables[t])' = createSQL(tables[t])

C15_AsStated == [][\A t \in 1..Len(tables) : Finalized(t)]_vars

\* The definition of a column as the claim describes it: an integer column
\* gets ` primary key` when marked, a text or blob column is its name and
\* kind, and a vector column is rendered as if it had never been marked
Rendered(col) ==
  IF col.type = "integer"
  THEN col.name \o " integer" \o (IF col.primaryKey = <<TRUE>> THEN " primary key" ELSE "")
  ELSE IF col.type \in {"text", "blob"} THEN col.name \o " " \o col.type
  ELSE ColumnDef([col EXCEPT !.primaryKey = <<>>])

\* C30: createSQL() renders ` primary key` only for an integer column marked
\* with primaryKey(); primaryKey() on a text, blob or vector column and
\* distanceMetric() on an integer, text or blob column leave the column's
\* rendered definition as it is without the call.
C30_Marks ==
  op = "createSQL" =>
    LET t == tables[call.args[1]] IN
    ddl = "CREATE VIRTUAL TABLE IF NOT EXISTS " \o t.name \o " USING vec0("
            \o Join([i \in 1..Len(t.columns) |-> Rendered(builders[t.columns[i]])], ", ")
            \o ")"

C30_Witness ==
  /\ op = "createSQL"
  /\ \E b \in 1..Len(builders) :
       /\ builders[b].type = "text"
       /\ builders[b].primaryKey = <<TRUE>>
       /\ tables[call.args[1]].columns = <<b>>
  /\ ddl = "CREATE VIRTUAL TABLE IF NOT EXISTS items_vec USING vec0(id text)"

(***************************************************************************)
(* Expression builder properties                                           *)
(***************************************************************************)
Query == buildQuery(frag)

\* SQL lexing of rendered text: blanks separate tokens, a double quote opens
\* a quoted identifier that runs to the next undoubled double quote.
RECURSIVE Lex(_, _, _, _)
Lex(p, cur, inq, acc) ==
  IF p = <<>> THEN (IF cur = <<>> THEN acc ELSE Append(acc, cur))
  ELSE
    LET c == Head(p)
        flushed == IF cur = <<>> THEN acc ELSE Append(acc, cur)
    IN IF inq THEN
         IF c = "\"" THEN
           IF Len(p) >= 2 /\ p[2] = "\""
           THEN Lex(Tail(Tail(p)), cur \o <<c, c>>, TRUE, acc)
           ELSE Lex(Tail(p), <<>>, FALSE, Append(acc, Append(cur, c)))
         ELSE Lex(Tail(p), Append(cur, c), TRUE, acc)
       ELSE IF c = " " THEN Lex(Tail(p), <<>>, FALSE, flushed)
       ELSE IF c = "\"" THEN Lex(Tail(p), <<c>>, TRUE, flushed)
       ELSE Lex(Tail(p), Append(cur, c), FALSE, acc)

Tokens(text) == Lex(text, <<>>, FALSE, <<>>)

\* The quoted identifier that denotes name n (embedded quotes doubled)
RECURSIVE DoubleQuotes(_)
DoubleQuotes(n) ==
  IF n = <<>> THEN <<>>
  ELSE (IF Head(n) = "\"" THEN <<"\"", "\"">> ELSE <<Head(n)>>) \o DoubleQuotes(Tail(n))

QuotedIdentifier(n) == <<"\"">> \o DoubleQuotes(n) \o <<"\"">>

MatchColumnName == IF call.args[1].shape = "string" THEN call.args[1].v ELSE call.args[1].v.name

MatchTail == <<" ", "MATCH", " ", "?", " ", "AND", " ", "k", " ", "=", " ", "?">>

IsMatchCall == op \in {"vectorMatch", "knnWhere"}

\* C1 as stated: both match helpers render `<column> MATCH ? AND k = ?` with
\* exactly two bound parameters, the serialized query vector and then k.
C1_AsStated ==
  IsMatchCall =>
    /\ Len(Query.sql) > Len(MatchTail)
    /\ SubSeq(Query.sql, Len(Query.sql) - Len(MatchTail) + 1, Len(Query.sql)) = MatchTail
    /\ Query.params = <<BufferValue(serializeVector(call.args[2].v)),
                        NumberValue(call.args[3].v)>>

\* C2 as stated: in every rendered match predicate the column is one quoted
\* identifier, whatever the column name contains, and the remaining tokens are
\* MATCH ? AND k = ?.
C2_AsStated ==
  IsMatchCall =>
    Tokens(Query.sql) = << QuotedIdentifier(MatchColumnName),
                           <<"MATCH">>, <<"?">>, <<"AND">>, <<"k">>, <<"=">>, <<"?">> >>

\* What an operand contributes, read off the arguments of the call
OperandParams(a) ==
  CASE a.shape = "array" -> <<BufferValue(serializeVector(a.v))>>
    [] a.shape = "column" -> <<>>
    [] a.shape = "sql" -> buildQuery(a.v).params
    [] a.shape = "number" -> <<NumberValue(a.v)>>
    [] a.shape = "string" -> <<StringValue(a.v)>>

OperandText(a) ==
  CASE a.shape = "array" -> <<"?">>
    [] a.shape = "column" -> <<"\"">> \o a.v.table \o <<"\"", ".", "\"">> \o a.v.name \o <<"\"">>
    [] a.shape = "sql" -> buildQuery(a.v).sql
    [] a.shape = "number" -> <<"?">>
    [] a.shape = "string" -> <<"?">>

RECURSIVE ConcatParams(_)
ConcatParams(args) ==
  IF args = <<>> THEN <<>> ELSE OperandParams(Head(args)) \o ConcatParams(Tail(args))

RECURSIVE JoinTexts(_)
JoinTexts(args) ==
  IF args = <<>> THEN <<>>
  ELSE IF Len(args) = 1 THEN OperandText(Head(args))
  ELSE OperandText(Head(args)) \o <<",", " ">> \o JoinTexts(Tail(args))

RECURSIVE CountPlaceholders(_)
CountPlaceholders(text) ==
  IF text = <<>> THEN 0
  ELSE (IF Head(text) = "?" THEN 1 ELSE 0) + CountPlaceholders(Tail(text))

BinaryFns == {"vec_distance_L2", "vec_distance_cosine", "vec_add", "vec_sub"}
UnaryFns == {"vec_length", "vec_normalize", "vec_to_json", "vec_quantize_i8",
             "vec_quantize_binary"}
VectorFns == BinaryFns \cup UnaryFns \cup {"vec_slice"}

ParamCountOf(a) ==
  IF a.shape = "array" THEN 1
  ELSE IF a.shape = "column" THEN 0
  ELSE IF a.shape = "sql" THEN Len(buildQuery(a.v).params)
  ELSE 1

\* C6: in every vector function, a literal operand contributes exactly one
\* bound parameter (its serialized bytes), a column operand none (it renders
\* as an escaped identifier) and a nested expression exactly its own; vec_add
\* and vec_sub bind 2, 1, 1, 0 parameters for literal+literal, column+literal,
\* literal+column, column+column.
C6_OperandLowering ==
  op \in VectorFns =>
    LET a == call.args
        vecArgs == IF op \in BinaryFns THEN 2 ELSE 1
        extra == IF op = "vec_slice" THEN 2 ELSE 0
    IN /\ \A i \in 1..vecArgs :
            LET own == buildQuery(toVectorSql(a[i])) IN
            /\ Len(own.params) = ParamCountOf(a[i])
            /\ a[i].shape = "array" =>
                 own.params = <<BufferValue(serializeVector(a[i].v))>> /\ own.sql = <<"?">>
            /\ a[i].shape = "column" =>
                 own.sql = QuotedIdentifier(a[i].v.table) \o <<".">>
                             \o QuotedIdentifier(a[i].v.name)
            /\ a[i].shape = "sql" => own = buildQuery(a[i].v)
       /\ Len(Query.params) =
            ParamCountOf(a[1]) + (IF vecArgs = 2 THEN ParamCountOf(a[2]) ELSE 0) + extra
       /\ op \in {"vec_add", "vec_sub"} =>
            /\ a[1].shape = "array" /\ a[2].shape = "array" => Len(Query.params) = 2
            /\ a[1].shape = "column" /\ a[2].shape = "array" => Len(Query.params) = 1
            /\ a[1].shape = "array" /\ a[2].shape = "column" => Len(Query.params) = 1
            /\ a[1].shape = "column" /\ a[2].shape = "column" => Len(Query.params) = 0

C6_Witness ==
  /\ op = "vec_sub"
  /\ call.args[1].shape = "sql"
  /\ call.args[2].shape = "array"
  /\ Len(buildQuery(call.args[1].v).params) = 1
  /\ Len(Query.params) = 2

\* C7 as stated: in every fragment the expression builder returns, the i-th
\* bound parameter belongs to the i-th placeholder of the text; operand
\* parameters keep their order and sit at the operand's position.
C7_AsStated ==
  op # "init" =>
    /\ CountPlaceholders(Query.sql) = Len(Query.params)
    /\ op \in VectorFns \cup {"vec_f32"} =>
         /\ Query.params = ConcatParams(call.args)
         /\ \A i \in 1..Len(call.args) :
              CountPlaceholders(OperandText(call.args[i]))
                = Len(OperandParams(call.args[i]))

\* C8: every helper renders one call of the extension function of its own
\* name with the operands in argument order: fn(a, b), fn(v),
\* vec_slice(v, start, end), vec_f32(json) with a string bound as one
\* parameter and an expression spliced with its own parameters.
C8_Lowering ==
  op \in VectorFns \cup {"vec_f32"} =>
    /\ Query.sql = <<op, "(">> \o JoinTexts(call.args) \o <<")">>
    /\ Len(call.args) = (IF op \in BinaryFns THEN 2 ELSE IF op = "vec_slice" THEN 3 ELSE 1)
    /\ op = "vec_f32" /\ call.args[1].shape = "string" =>
         Query.params = <<StringValue(call.args[1].v)>>
    /\ op = "vec_f32" /\ call.args[1].shape = "sql" =>
         Query.params = buildQuery(call.args[1].v).params

C8_Witness ==
  /\ op = "vec_distance_L2"
  /\ call.args[1].shape = "sql"
  /\ call.args[2].shape = "column"
  /\ Query.sql = <<"vec_distance_L2", "(", "vec_slice", "(", "?", ",", " ", "?", ",", " ", "?",
                   ")", ",", " ", "\"", "documents", "\"", ".", "\"", "embedding", "\"", ")">>

(***************************************************************************)
(* Codec properties                                                        *)
(***************************************************************************)
\* A double that a float32 holds exactly (zero, normal or subnormal float32).
Representable(d) ==
  \/ d.e = 0 /\ d.hi = 0 /\ d.lo = 0
  \/ /\ d.e # 2047 /\ d.e # 0 /\ d.lo = 0
     /\ LET E == d.e - 1023 IN
        \/ E >= -126 /\ E <= 127
        \/ E < -126 /\ E >= -149 /\ d.hi % (2 ^ ((0 - 126) - E)) = 0

Signed(s, d) == [d EXCEPT !.s = s]

\* |d| is finite and larger than the largest finite float32
BeyondFloat32Range(d) ==
  /\ d.e # 2047
  /\ d.e > FltMax.e \/ (d.e = FltMax.e /\ d.hi = FltMax.hi /\ d.lo > 0)

\* |d| is finite and at least the largest finite float32 plus half an ulp
OverflowsFloat32(d) ==
  /\ d.e # 2047
  /\ d.e > FltMax.e \/ (d.e = FltMax.e /\ d.hi = FltMax.hi /\ d.lo >= Two28)

RoundTripCommon(i) ==
  /\ Representable(vector[i]) => decoded.value[i] = vector[i]
  /\ IsInf(vector[i]) => decoded.value[i] = vector[i]
  /\ IsNaN(vector[i]) => IsNaN(decoded.value[i])
  /\ ~IsNaN(vector[i]) => /\ decoded.value[i].s = vector[i].s
                          /\ IsInf(decoded.value[i]) \/ Representable(decoded.value[i])

\* C3 as stated: the round trip keeps length and positions, returns a
\* float32-representable value exactly, turns every finite value beyond the
\* float32 range into the infinity of its sign, keeps infinities and NaN, and
\* never fails.
C3_AsStated ==
  op = "roundTrip" =>
    /\ decoded.ok
    /\ Len(decoded.value) = Len(vector)
    /\ \A i \in 1..Len(vector) :
         /\ RoundTripCommon(i)
         /\ BeyondFloat32Range(vector[i]) => decoded.value[i] = Signed(vector[i].s, PosInf)

\* C3 amended: as C3, except that a finite value becomes the infinity of its
\* sign exactly when its magnitude is at least the largest finite float32 plus
\* half an ulp (2^128 - 2^103); a finite value above the largest finite
\* float32 but below that bound comes back as the largest finite float32 of
\* the same sign.
C3_RoundTrip ==
  op = "roundTrip" =>
    /\ decoded.ok
    /\ Len(decoded.value) = Len(vector)
    /\ \A i \in 1..Len(vector) :
         /\ RoundTripCommon(i)
         /\ OverflowsFloat32(vector[i]) <=> (IsFinite(vector[i]) /\ IsInf(decoded.value[i]))
         /\ BeyondFloat32Range(vector[i]) /\ ~OverflowsFloat32(vector[i])
              => decoded.value[i] = Signed(vector[i].s, FltMax)
         /\ vector[i] = Tenth => decoded.value[i] = Dbl(0, 1019, 5033165, 0)
         /\ vector[i] = TieOne => decoded.value[i] = One

C3_Witness ==
  /\ op = "roundTrip"
  /\ vector = <<AboveFltMax, NegBig>>
  /\ decoded.ok
  /\ decoded.value = <<FltMax, NegInf>>

\* C4: serializeVector of n values gives exactly 4n bytes and no header;
\* element i sits in bytes 4i..4i+3 in input order (little-endian float32);
\* n = 0 gives a zero-length buffer.
C4_Layout ==
  op = "serializeVector" =>
    /\ buffer.byteLength = 4 * Len(vector)
    /\ buffer.byteOffset = 0
    /\ Len(buffer.storage) = 4 * Len(vector)
    /\ \A i \in 1..Len(vector) :
         LET b == SubSeq(BufferBytes(buffer), 4 * (i - 1) + 1, 4 * i) IN
         /\ \A j \in 1..4 : b[j] \in 0..255
         /\ F32FromBytes(b[1], b[2], b[3], b[4]) = ToFloat32(vector[i])
    /\ (vector = <<One>>) => BufferBytes(buffer) = <<0, 0, 128, 63>>
    /\ (vector = <<>>) => BufferBytes(buffer) = <<>>

C4_Witness ==
  /\ op = "serializeVector"
  /\ vector = <<One, NegZero>>
  /\ BufferBytes(buffer) = <<0, 0, 128, 63, 0, 0, 0, 128>>

\* C5 as stated: deserializeVector of b bytes returns floor(b/4) elements for
\* every b >= 0, ignoring the b mod 4 trailing bytes, and never fails.
C5_AsStated ==
  op \in {"deserializeVector", "roundTrip"} =>
    /\ decoded.ok
    /\ Len(decoded.value) = buffer.byteLength \div 4

\* The numbers encoded by the complete 4-byte groups of a byte sequence
OwnElements(bytes) ==
  [i \in 1..(Len(bytes) \div 4) |->
     Widen(F32FromBytes(bytes[4 * i - 3], bytes[4 * i - 2], bytes[4 * i - 1], bytes[4 * i]))]

\* C29 as stated: deserializeVector succeeds for a Buffer at any byte offset
\* inside its underlying storage, offsets that are not a multiple of 4
\* included, and the result is determined by the buffer's own bytes alone.
C29_AsStated ==
  op \in {"deserializeVector", "roundTrip"} =>
    /\ decoded.ok
    /\ decoded.value = OwnElements(BufferBytes(buffer))

(***************************************************************************)
(* DML helper properties                                                   *)
(***************************************************************************)
DmlTable == TableObject(call.args[1])

\* The positions (in table order) of the declared columns that have a value
PresentIndexes(values) ==
  {i \in 1..Len(DmlTable.columns) :
     DmlTable.columns[i].name \in DOMAIN values
     /\ values[DmlTable.columns[i].name].t # "undefined"}

\* The n-th smallest element of a set of numbers
Nth(S, n) == CHOOSE x \in S : Cardinality({y \in S : y < x}) = n - 1

PresentColumns(values) ==
  [n \in 1..Cardinality(PresentIndexes(values)) |->
     DmlTable.columns[Nth(PresentIndexes(values), n)]]

Quoted(name) == <<"\"", name, "\"">>

RECURSIVE QuotedList(_)
QuotedList(columns) ==
  IF columns = <<>> THEN <<>>
  ELSE Quoted(Head(columns).name)
         \o (IF Len(columns) > 1 THEN <<",", " ">> ELSE <<>>) \o QuotedList(Tail(columns))

RECURSIVE Placeholders(_)
Placeholders(n) ==
  IF n = 0 THEN <<>>
  ELSE <<"?">> \o (IF n > 1 THEN <<",", " ">> ELSE <<>>) \o Placeholders(n - 1)

\* C16: insertVec0 renders INSERT INTO <table> (<cols>) VALUES (<vals>) where
\* <cols> is exactly the declared columns whose value is present, in declared
\* order, each as a quoted identifier, and <vals> has one value per listed
\* column.
C16_Insert ==
  (op = "insertVec0" /\ frag.k = "sql") =>
    LET columns == PresentColumns(call.args[2]) IN
    /\ Query.sql = <<"INSERT", " ", "INTO", " ">> \o Quoted(DmlTable.name) \o <<" ", "(">>
                     \o QuotedList(columns) \o <<")", " ", "VALUES", " ", "(">>
                     \o Placeholders(Len(columns)) \o <<")">>
    /\ Len(Query.params) = Len(columns)

C16_Witness ==
  /\ op = "insertVec0"
  /\ call.args[2]["id"] = JsUndefined
  /\ call.args[2]["other"] = NumberValue(7)
  /\ Query.sql = <<"INSERT", " ", "INTO", " ", "\"", "items_vec", "\"", " ", "(",
                   "\"", "embedding", "\"", ")", " ", "VALUES", " ", "(", "?", ")">>

\* The value the claim binds for a given value of a column
BoundFor(col, value) ==
  IF col.type \in VectorKinds /\ value.t = "array"
  THEN BufferValue(BufferFrom(ArrayBufferOf(Float32ArrayOf(value.arr))))
  ELSE value

\* C17: in every statement of insertVec0, insertManyVec0 and updateVec0 the
\* value bound for a vector column (float, int8, bit) is the serialization
\* of the given vector, and the value bound for a non-vector column is the
\* given value unchanged.
C17_BoundValues ==
  /\ (op \in {"insertVec0", "updateVec0"} /\ frag.k = "sql") =>
       LET columns == PresentColumns(call.args[2]) IN
       \A i \in 1..Len(columns) :
         Query.params[i] = BoundFor(columns[i], call.args[2][columns[i].name])
  /\ (op = "insertManyVec0" /\ frag.k = "sql") =>
       LET rows == call.args[2]
           columns == PresentColumns(rows[1])
       IN \A r \in 1..Len(rows) : \A i \in 1..Len(columns) :
            rows[r][columns[i].name].t # "undefined" =>
              Query.params[(r - 1) * Len(columns) + i]
                = BoundFor(columns[i], rows[r][columns[i].name])

C17_Witness ==
  /\ op = "updateVec0"
  /\ DmlTable.columns[1].type = "int8"
  /\ Len(Query.params) = 3
  /\ Query.params[1] = BufferValue(BufferFrom(<<0, 0, 128, 63, 205, 204, 204, 61>>))
  /\ Query.params[2] = StringValue("a")

NoValuesError(fn) == [k |-> "error", message |-> fn \o ": No values provided for insert"]
NoRowsError == [k |-> "error", message |-> "insertManyVec0: No rows provided for insert"]
NoUpdateValuesError == [k |-> "error", message |-> "updateVec0: No values provided for update"]

\* C18: insertVec0 fails with the no-values error exactly when no declared
\* column has a present value; insertManyVec0 fails with the no-rows error
\* when the row list is empty (checked first) and with the no-values error
\* when the first row has no present declared column; updateVec0 fails with
\* the no-values error when no declared column has a present value; a
\* failing call returns no statement, any other call returns one.
C18_Errors ==
  /\ op = "insertVec0" =>
       frag = (IF PresentIndexes(call.args[2]) = {} THEN NoValuesError("insertVec0")
               ELSE SQL(frag.chunks))
  /\ op = "insertManyVec0" =>
       frag = (IF call.args[2] = <<>> THEN NoRowsError
               ELSE IF PresentIndexes(call.args[2][1]) = {} THEN NoValuesError("insertManyVec0")
               ELSE SQL(frag.chunks))
  /\ op = "updateVec0" =>
       frag = (IF PresentIndexes(call.args[2]) = {} THEN NoUpdateValuesError
               ELSE SQL(frag.chunks))

C18_Witness ==
  /\ op = "insertVec0"
  /\ call.args[2]["other"] = NumberValue(7)
  /\ frag = NoValuesError("insertVec0")

\* The value bound at the position of a column for a row of insertManyVec0
RowBound(col, row) ==
  IF row[col.name].t = "undefined" THEN NullValue ELSE BoundFor(col, row[col.name])

RECURSIVE Tuples(_, _)
Tuples(rows, n) ==
  IF rows = 0 THEN <<>>
  ELSE <<"(">> \o Placeholders(n) \o <<")">>
         \o (IF rows > 1 THEN <<",", " ">> ELSE <<>>) \o Tuples(rows - 1, n)

\* C19: insertManyVec0 lists the declared columns present in rows[0], in
\* declared order; every row is one tuple with exactly that many values in
\* that column order, tuples follow row order, and rows x columns values are
\* bound.
C19_InsertMany ==
  (op = "insertManyVec0" /\ frag.k = "sql") =>
    LET rows == call.args[2]
        columns == PresentColumns(rows[1])
    IN /\ Query.sql = <<"INSERT", " ", "INTO", " ">> \o Quoted(DmlTable.name) \o <<" ", "(">>
                        \o QuotedList(columns) \o <<")", " ", "VALUES", " ">>
                        \o Tuples(Len(rows), Len(columns))
       /\ Len(Query.params) = Len(rows) * Len(columns)
       /\ \A r \in 1..Len(rows) : \A i \in 1..Len(columns) :
            Query.params[(r - 1) * Len(columns) + i] = RowBound(columns[i], rows[r])

C19_Witness ==
  /\ op = "insertManyVec0"
  /\ Len(call.args[2]) = 2
  /\ call.args[2][1]["id"] = JsUndefined
  /\ call.args[2][2]["id"] = NumberValue(1)
  /\ call.args[2][2]["embedding"] = JsArray(<<One, Tenth>>)
  /\ Query.sql = <<"INSERT", " ", "INTO", " ", "\"", "items_vec", "\"", " ", "(",
                   "\"", "embedding", "\"", ")", " ", "VALUES", " ",
                   "(", "?", ")", ",", " ", "(", "?", ")">>

\* The pieces of a rendered text
Pieces(text) == {text[i] : i \in 1..Len(text)}

\* C27: when insertManyVec0 is given rows whose first row has a present
\* declared column, it returns a statement (no error); a later row with no
\* value for a column of the first row's set binds NULL at that column's
\* position; a declared column absent from the first row is named nowhere
\* in the statement and gets no binding, also when a later row has a value
\* for it.
C27_LaterRows ==
  (op = "insertManyVec0" /\ Len(call.args[2]) > 0
     /\ PresentIndexes(call.args[2][1]) # {}) =>
    LET rows == call.args[2]
        columns == PresentColumns(rows[1])
    IN /\ frag.k = "sql"
       /\ Len(Query.params) = Len(rows) * Len(columns)
       /\ \A r \in 2..Len(rows) : \A i \in 1..Len(columns) :
            rows[r][columns[i].name] = JsUndefined =>
              Query.params[(r - 1) * Len(columns) + i] = NullValue
       /\ \A i \in 1..Len(DmlTable.columns) :
            i \notin PresentIndexes(rows[1]) =>
              DmlTable.columns[i].name \notin Pieces(Query.sql)

C27_Witness ==
  /\ op = "insertManyVec0"
  /\ Len(call.args[2]) = 2
  /\ call.args[2][1]["id"] = JsUndefined
  /\ call.args[2][1]["embedding"] = JsArray(<<One, Tenth>>)
  /\ call.args[2][2]["id"] = NumberValue(1)
  /\ call.args[2][2]["embedding"] = JsUndefined
  /\ frag.k = "sql"
  /\ Query.params[2] = NullValue
  /\ "id" \notin Pieces(Query.sql)

\* Two results agree: both are the no-values error of their function, or
\* both are statements with the same rendered text and the same parameters
Agree(single, many) ==
  IF single.k = "error" \/ many.k = "error"
  THEN single = NoValuesError("insertVec0") /\ many = NoValuesError("insertManyVec0")
  ELSE buildQuery(single) = buildQuery(many)

\* C28: insertManyVec0(table, [r]) and insertVec0(table, r) agree for every
\* table and row r: both fail with the no-values error, or both return a
\* statement with the same text and the same parameters in the same order.
C28_SingleRow ==
  /\ op = "insertVec0" =>
       Agree(frag, insertManyVec0(DmlTable, <<call.args[2]>>))
  /\ (op = "insertManyVec0" /\ Len(call.args[2]) = 1) =>
       Agree(insertVec0(DmlTable, call.args[2][1]), frag)

C28_Witness ==
  /\ op = "insertVec0"
  /\ call.args[2]["id"] = NullValue
  /\ call.args[2]["embedding"] = JsArray(<<One, Tenth>>)
  /\ frag.k = "sql"
  /\ Query = buildQuery(insertManyVec0(DmlTable, <<call.args[2]>>))
  /\ Len(Query.params) = 2

RECURSIVE Assignments(_)
Assignments(columns) ==
  IF columns = <<>> THEN <<>>
  ELSE Quoted(Head(columns).name) \o <<" ", "=", " ", "?">>
         \o (IF Len(columns) > 1 THEN <<",", " ">> ELSE <<>>) \o Assignments(Tail(columns))

\* C20: updateVec0 renders UPDATE <table> SET <clauses> WHERE <cond> with one
\* `<column> = ?` clause per declared column whose value is present, in
\* declared order; a numeric where n gives `rowid = ?` bound to n, a
\* pre-built condition is spliced unchanged; the parameters are the SET
\* values in clause order followed by those of the condition.
C20_Update ==
  (op = "updateVec0" /\ frag.k = "sql") =>
    LET values == call.args[2]
        where == WhereList[call.args[3]]
        columns == PresentColumns(values)
        cond == IF where.shape = "number"
                THEN [sql |-> <<"rowid", " ", "=", " ", "?">>,
                      params |-> <<NumberValue(where.v)>>]
                ELSE buildQuery(where.v)
    IN /\ Query.sql = <<"UPDATE", " ">> \o Quoted(DmlTable.name) \o <<" ", "SET", " ">>
                        \o Assignments(columns) \o <<" ", "WHERE", " ">> \o cond.sql
       /\ Query.params = [i \in 1..Len(columns) |-> RowBound(columns[i], values)] \o cond.params

C20_Witness ==
  /\ op = "updateVec0"
  /\ Query.sql = <<"UPDATE", " ", "\"", "items_vec", "\"", " ", "SET", " ",
                   "\"", "id", "\"", " ", "=", " ", "?", ",", " ",
                   "\"", "embedding", "\"", " ", "=", " ", "?",
                   " ", "WHERE", " ", "id", " ", "=", " ", "?">>
  /\ Query.params[1] = NumberValue(1)
  /\ Query.params[3] = NumberValue(5)

\* C21 as stated: a where value that is a number but not a positive integer
\* (zero, a negative number) is not accepted by updateVec0 and deleteVec0 and
\* yields no statement.
CalledWhere == WhereList[call.args[Len(call.args)]]

C21_AsStated ==
  (op \in {"updateVec0", "deleteVec0"}
     /\ CalledWhere.shape = "number" /\ CalledWhere.v <= 0) => frag.k # "sql"

\* C22: statement generation is stateless: in any interleaving of createSQL,
\* dropSQL, insertVec0, insertManyVec0, updateVec0 and deleteVec0 on one
\* finalized table every call returns what the same call returns when made
\* alone on that table, and no call, failing calls included, changes
\* table.name or table.columns.
Alone ==
  CASE op = "createSQL" -> ddl = createSQL(tables[call.args[1]])
    [] op = "dropSQL" -> ddl = dropSQL(tables[call.args[1]])
    [] op = "insertVec0" -> frag = insertVec0(DmlTable, call.args[2])
    [] op = "insertManyVec0" -> frag = insertManyVec0(DmlTable, call.args[2])
    [] op = "updateVec0" -> frag = updateVec0(DmlTable, call.args[2], WhereList[call.args[3]])
    [] op = "deleteVec0" -> frag = deleteVec0(DmlTable, WhereList[call.args[2]])
    [] OTHER -> TRUE

InitialTable ==
  \E i \in 1..Len(DmlSchemas) :
    LET r == Vec0TableOf(DmlSchemas[i].heap, DmlSchemas[i].name, DmlSchemas[i].columns)
    IN builders = r.heap /\ tables = <<r.table>>

DimensionMismatch == [k |-> "error", message |-> "Vectors must have the same dimensions"]

\* C23: for vectors a and b of different lengths l2Distance,
\* cosineSimilarity, cosineDistance and dotProduct fail with the
\* dimension-mismatch error and return no number; typedVector(d, values)
\* fails with a dimension-mismatch error whenever values.length differs from
\* d and otherwise returns values, same elements in the same order.
C23_Mismatch ==
  /\ (op \in {"l2Distance", "cosineSimilarity", "cosineDistance", "dotProduct"}
        /\ Len(call.args[1]) # Len(call.args[2])) => frag = DimensionMismatch
  /\ op = "typedVector" =>
       frag = (IF Len(call.args[1]) # call.args[2]
               THEN [k |-> "error",
                     message |-> "Vector dimension mismatch: expected "
                                   \o ToString(call.args[2]) \o ", got "
                                   \o ToString(Len(call.args[1]))]
               ELSE [k |-> "value", v |-> call.args[1]])

C23_Witness ==
  /\ op = "l2Distance"
  /\ call.args = << <<1, -2>>, <<1>> >>
  /\ frag = DimensionMismatch

\* C24: validateVector never returns false: it returns true exactly when the
\* value is an array whose elements are all numbers other than NaN and whose
\* length equals dimensions when dimensions is given (the empty array is
\* valid); otherwise it throws, testing in this order: not an array, an
\* invalid element, a dimension mismatch.
C24_Validate ==
  op = "validateVector" =>
    LET value == call.args[1]
        dimensions == call.args[2]
        isArray == value.t = "array"
        allNumbers == isArray /\ \A i \in DOMAIN value.arr : value.arr[i].t = "number"
        matches == isArray /\ (dimensions = <<>> \/ Len(value.arr) = dimensions[1])
    IN /\ frag # [k |-> "value", v |-> FALSE]
       /\ (frag = [k |-> "value", v |-> TRUE]) <=> (isArray /\ allNumbers /\ matches)
       /\ ~isArray => frag = [k |-> "error", message |-> "Vector must be an array"]
       /\ (isArray /\ ~allNumbers) =>
            frag = [k |-> "error", message |-> "Vector must contain only valid numbers"]
       /\ (isArray /\ allNumbers /\ ~matches) =>
            frag = [k |-> "error",
                    message |-> "Vector dimension mismatch: expected "
                                  \o ToString(dimensions[1]) \o ", got "
                                  \o ToString(Len(value.arr))]

C24_Witness ==
  /\ op = "validateVector"
  /\ call.args[1] = JsArray(<<NumberValue(1), NaNValue>>)
  /\ call.args[2] = <<3>>
  /\ frag = [k |-> "error", message |-> "Vector must contain only valid numbers"]

(***************************************************************************)
(* Search query builder properties                                         *)
(***************************************************************************)
\* The text after "ON" in the rendered join query
RECURSIVE After(_, _)
After(text, piece) ==
  IF text = <<>> THEN <<>>
  ELSE IF Head(text) = piece THEN Tail(text)
  ELSE After(Tail(text), piece)

\* C25 as stated: buildVectorSearchWithJoin joins the data table to the
\* search results on the data-table column named by joinColumn (equal to
\* vec_results.rowid), for every joinColumn, with or without an `_id` suffix.
Concat(pieces) == Join(pieces, "")

C25_AsStated ==
  op = "buildVectorSearchWithJoin" =>
    LET on == After(Query.sql, "ON") IN
    SubSeq(on, 1, 14)
      = <<" ">> \o escapeName(call.args.dataTableName) \o <<".">>
          \o <<"\"", Concat(call.args.joinColumn), "\"">>
          \o <<" ", "=", " ", "vec_results", ".", "rowid">>

\* C26 as stated: buildVectorSearchQuery binds exactly the serialized query
\* vector and then k (options.limit, or 10 when absent), renders table and
\* column as quoted identifiers, and each of maxDistance, minSimilarity and
\* metric, when set, changes the generated query.
Without(options, field) == [options EXCEPT ![field] = <<>>]

C26_AsStated ==
  op = "buildVectorSearchQuery" =>
    LET a == call.args IN
    /\ Query.params = <<BufferValue(BufferFrom(ArrayBufferOf(Float32ArrayOf(a.queryVector)))),
                        NumberValue(IF a.options.limit = <<>> THEN 10 ELSE a.options.limit[1])>>
    /\ \A field \in {"maxDistance", "minSimilarity", "metric"} :
         a.options[field] # <<>> =>
           frag # buildVectorSearchQuery(a.tableName, a.vectorColumn, a.queryVector,
                                         Without(a.options, field))

====
